---- MODULE Spec2Model ----
(***************************************************************************)
(* NotionUploader: token cache, authenticated fetchers (Strava activity,   *)
(* Withings measurements) and the Notion workout store, as state machines. *)
(* Every action is one run of a coroutine between two awaits: the redis    *)
(* client is synchronous, so a cache read or write never yields, while     *)
(* every HTTP call (token endpoint, read endpoint, Notion) is an await at  *)
(* which other requests may run.                                           *)
(***************************************************************************)
EXTENDS Integers, Sequences, FiniteSets, TLC

\* Concurrent requests served by the event loop.
Procs == {"r1", "r2"}

\* Bound: token responses that carry an access token (each gets a fresh id).
MaxResp == 2
\* Bound: calls (fetches, saves) started in one behaviour.
MaxCalls == 3

\* Python's None; also the value redis.get returns for an absent key.
None == <<>>

\* Python truthiness of an optional string (a token; a text t, held as
\* <<t>>): None and the empty string are falsy.
Truthy(v) == v # None /\ v # <<"">>

\* A number n / d (d > 0), and an integer as a number.
Rat(n, d) == <<n, d>>
Num(n) == Rat(n, 1)

\* Python truthiness of an optional number: None and 0 are falsy.
TruthyNum(v) == v # None /\ v[1] # 0

\* A value where a number is expected that is no number (float() and the
\* validation of WorkoutLog reject it), and the test for a number.
NotANumber == <<"fast">>
IsFloat(v) == Len(v) = 2

\* The tokens of the token endpoint's k-th successful response (0: the pair
\* the operator seeded the cache with).
AccessTokenOf(k) == <<"access", k>>
RefreshTokenOf(k) == <<"refresh", k>>

VARIABLES
    provider,   \* the upstream provider this run's fetches talk to
    cache,      \* redis: key -> [value, ex]
    nextResp,   \* id the token endpoint gives its next successful response
    calls,      \* calls started so far
    req,        \* per request: operation, position, locals and call history
    pages,      \* Notion workout database: set of pages
    nextPage,   \* id Notion gives the next created page
    saveLog,    \* store writes in the order Notion applied them
    raced,      \* external ids for which two save_workout calls have overlapped
    lastWrite   \* the token response whose tokens were written to the cache last

vars == <<provider, cache, nextResp, calls, req, pages, nextPage, saveLog, raced,
          lastWrite>>

----------------------------------------------------------------------------
(* Token cache (services/redis.py RedisClient, the tests' RecordingRedis)  *)

Providers == {"strava", "withings"}

AccessKey(prov) ==
    IF prov = "strava" THEN "strava_access_token" ELSE "withings_access_token"

RefreshKey(prov) ==
    IF prov = "strava" THEN "strava_refresh_token" ELSE "withings_refresh_token"

Keys == {AccessKey(prov) : prov \in Providers} \cup {RefreshKey(prov) : prov \in Providers}

NoKey == [value |-> None, ex |-> None]

RedisGet(c, key) == c[key].value

\* Mutant of RedisSet: the write is lost.
RedisSetDropped(c, w) == c

\* One redis.set(key, value, ex=...): the value and its TTL replace the key.
RedisSet(c, w) == [c EXCEPT ![w.key] = [value |-> w.value, ex |-> w.ex]]

RECURSIVE ApplyWrites(_, _)
ApplyWrites(c, ws) ==
    IF ws = <<>> THEN c ELSE ApplyWrites(RedisSet(c, Head(ws)), Tail(ws))

\* The 30 s safety margin taken off the provider-reported expiry.
SafetyMargin == 30
\* TTL of the refresh-token key: one year.
RefreshTtl == 365 * 24 * 60 * 60

----------------------------------------------------------------------------
(* Upstream answers (the environment)                                      *)

\* expires_in values a token response may carry: absent, 0, one hour.
ExpiresValues == {None, Num(0), Num(3600)}

\* Answers of a token endpoint: a transport failure, or an HTTP response with
\* its status, the body's "status" (Withings only) and which fields it has.
TokenResponses(prov) ==
    {[kind |-> "timeout", status |-> 0, apiStatus |-> 0,
      hasAccess |-> FALSE, hasRefresh |-> FALSE, expires_in |-> None]}
    \cup
    {[kind |-> "http", status |-> 500, apiStatus |-> 0,
      hasAccess |-> FALSE, hasRefresh |-> FALSE, expires_in |-> None]}
    \cup
    {[kind |-> "http", status |-> 200, apiStatus |-> a,
      hasAccess |-> FALSE, hasRefresh |-> hr, expires_in |-> None] :
        a \in (IF prov = "withings" THEN {0, 42} ELSE {0}), hr \in BOOLEAN}
    \cup
    {[kind |-> "http", status |-> 200, apiStatus |-> 0,
      hasAccess |-> TRUE, hasRefresh |-> hr, expires_in |-> e] :
        hr \in BOOLEAN, e \in ExpiresValues}

\* Answers of a read endpoint. A Withings error status comes with a non-zero
\* body status; a 200 may carry either.
GetResponses(prov) ==
    {[kind |-> k, status |-> 0, apiStatus |-> 0] : k \in {"timeout", "connect"}}
    \cup
    {[kind |-> "http", status |-> s, apiStatus |-> a] :
        s \in {401, 404}, a \in (IF prov = "withings" THEN {401} ELSE {0})}
    \cup
    {[kind |-> "http", status |-> 200, apiStatus |-> a] :
        a \in (IF prov = "withings" THEN {0, 401} ELSE {0})}

----------------------------------------------------------------------------
(* Exceptions                                                              *)

NoError == [type |-> "none", msg |-> ""]

Exc(t, m) == [type |-> t, msg |-> m]

MissingRefreshTokenError(prov) ==
    IF prov = "strava"
    THEN Exc("StravaAuthError", "No Strava refresh token found in Redis")
    ELSE Exc("ValueError", "No Withings refresh token found in Redis")

RefreshHttpError(prov) ==
    IF prov = "strava"
    THEN Exc("StravaAuthError", "Failed to refresh Strava access token")
    ELSE Exc("RuntimeError", "Failed to refresh Withings access token")

RefreshApiError == Exc("RuntimeError", "Withings API error")

\* Mutant of MissingAccessTokenError: the error of the HTTP-status check is
\* reused.
MissingAccessTokenErrorReused(prov) == RefreshHttpError(prov)

MissingAccessTokenError(prov) ==
    IF prov = "strava"
    THEN Exc("StravaAuthError", "Strava token refresh response missing access token")
    ELSE Exc("RuntimeError", "Withings refresh response missing access token")

TransportError(kind) ==
    IF kind = "timeout" THEN Exc("httpx.TimeoutException", "")
    ELSE Exc("httpx.ConnectError", "")

HTTPStatusError(status) ==
    Exc("httpx.HTTPStatusError", IF status = 401 THEN "401" ELSE "4xx/5xx")

MeasureApiError == Exc("RuntimeError", "Withings API error")

Pending == Exc("pending", "")
Ok == Exc("ok", "")

----------------------------------------------------------------------------
(* refresh: StravaClient._refresh_access_token,                            *)
(*          WithingsMeasurementsAdapter.refresh_access_token               *)

\* Mutant of HasRefreshToken: the stored refresh token is not checked.
HasRefreshTokenUnchecked(c, prov) == TRUE

\* `if not refresh_token: raise ...`, before the request is built.
HasRefreshToken(c, prov) == Truthy(RedisGet(c, RefreshKey(prov)))

\* Mutant of AccessWrite: the TTL is the reported expiry, no margin taken off.
AccessWriteNoMargin(prov, token, expires_in) ==
    [key |-> AccessKey(prov), value |-> token,
     ex |-> IF TruthyNum(expires_in) THEN Num(expires_in[1]) ELSE None]

\* redis.set of the access token: ex = int(expires_in) - 30 when expires_in is
\* truthy, no ex otherwise.
AccessWrite(prov, token, expires_in) ==
    [key |-> AccessKey(prov), value |-> token,
     ex |-> IF TruthyNum(expires_in) THEN Num(expires_in[1] - SafetyMargin) ELSE None]

\* redis.set of the refresh token, only when the response carries one.
RefreshWrite(prov, token) ==
    [key |-> RefreshKey(prov), value |-> token, ex |-> Num(RefreshTtl)]

\* Mutant of TokenWrites: the new refresh token is never stored.
TokenWritesAccessOnly(prov, r, k) ==
    <<AccessWrite(prov, AccessTokenOf(k), r.expires_in)>>

TokenWrites(prov, r, k) ==
    <<AccessWrite(prov, AccessTokenOf(k), r.expires_in)>>
    \o (IF r.hasRefresh THEN <<RefreshWrite(prov, RefreshTokenOf(k))>> ELSE <<>>)

\* What the token endpoint answered, as the caller of refresh would name it:
\* no answer, a non-success HTTP status, a Withings body status other than 0,
\* a success without the access-token field, or a usable token.
AnswerKind(prov, r) ==
    IF r.kind # "http" THEN "transport"
    ELSE IF r.status < 200 \/ r.status >= 300 THEN "http_status"
    ELSE IF prov = "withings" /\ r.apiStatus # 0 THEN "api_status"
    ELSE IF ~r.hasAccess THEN "no_access_token"
    ELSE "token"

\* Mutant of RefreshOutcome: the tokens are stored before the response is
\* checked for its access token.
RefreshOutcomeStoringFirst(prov, r, k) ==
    IF r.kind # "http"
    THEN [exc |-> TransportError(r.kind), token |-> None, writes |-> <<>>]
    ELSE IF r.status # 200
    THEN [exc |-> RefreshHttpError(prov), token |-> None, writes |-> <<>>]
    ELSE IF prov = "withings" /\ r.apiStatus # 0
    THEN [exc |-> RefreshApiError, token |-> None, writes |-> <<>>]
    ELSE IF ~r.hasAccess
    THEN [exc |-> MissingAccessTokenError(prov), token |-> None,
          writes |-> TokenWrites(prov, r, k)]
    ELSE [exc |-> Ok, token |-> AccessTokenOf(k), writes |-> TokenWrites(prov, r, k)]

\* What refresh does with the token endpoint's answer r (k: the id of the
\* response): the exception it raises or the token it returns, and its
\* redis.set calls in order.
RefreshOutcome(prov, r, k) ==
    IF r.kind # "http"
    THEN [exc |-> TransportError(r.kind), token |-> None, writes |-> <<>>]
    ELSE IF r.status # 200
    THEN [exc |-> RefreshHttpError(prov), token |-> None, writes |-> <<>>]
    ELSE IF prov = "withings" /\ r.apiStatus # 0
    THEN [exc |-> RefreshApiError, token |-> None, writes |-> <<>>]
    ELSE IF ~r.hasAccess
    THEN [exc |-> MissingAccessTokenError(prov), token |-> None, writes |-> <<>>]
    ELSE [exc |-> Ok, token |-> AccessTokenOf(k), writes |-> TokenWrites(prov, r, k)]

----------------------------------------------------------------------------
(* Activities                                                             *)

\* External ids (Strava activity ids) in play.
ActivityIds == {101, 102}

\* An activity detail as save_workout reads it (detail.get: None for a key
\* the detail does not carry). Of the properties sent whatever the detail
\* holds, the distance stands for the elevation too; of the number
\* properties sent only when there is a value, the heart-rate pair stands
\* for cadence, watts, kilojoules and kcal. These activities have neither
\* splits nor laps.
Details ==
    {[id |-> i, name |-> "Ride", type |-> None, description |-> None,
      elapsed_time |-> Num(3600), moving_time |-> Num(3600), distance |-> None,
      average_heartrate |-> None, max_heartrate |-> None,
      weighted_average_watts |-> None,
      splits_metric |-> <<>>, laps |-> <<>>] : i \in ActivityIds}
    \cup
    {[id |-> 101, name |-> "Run", type |-> <<"Run">>, description |-> <<"desc">>,
      elapsed_time |-> Num(180), moving_time |-> Num(180), distance |-> Num(500),
      average_heartrate |-> Num(150), max_heartrate |-> Num(180),
      weighted_average_watts |-> Num(210),
      splits_metric |-> <<>>, laps |-> <<>>]}

----------------------------------------------------------------------------
(* Requests                                                                *)

IdleReq ==
    [op |-> "idle", pc |-> "idle", prov |-> "none", activity_id |-> 0,
     cached |-> None, access_token |-> None, gets |-> <<>>, refreshes |-> <<>>,
     fetch |-> Pending, result |-> Pending,
     detail |-> None, tss |-> None, intensity_factor |-> None,
     props |-> None, page_id |-> 0, queried_at |-> 0,
     boundary |-> "none", signature |-> "none", event |-> "none",
     store_calls |-> <<>>, attachment |-> None,
     query_result |-> <<>>, workouts |-> <<>>, workout |-> None,
     updated |-> None, lookup |-> Pending, ended |-> <<>>, athlete |-> None,
     args |-> None, value |-> None, object_id |-> 0,
     caller_tss |-> None, caller_if |-> None, estimate |-> None]

\* process_activity: `except StravaAuthError: raise HTTPException(500, "Auth
\* failure")`; any other exception of the fetch propagates as it is.
ProcessActivityError(exc) ==
    IF exc.type = "StravaAuthError"
    THEN Exc("HTTPException", "500 Auth failure")
    ELSE exc

\* Mutant of FetchFailed: the failure of the fetch is swallowed and
\* process_activity goes on to the athlete profile.
FetchFailedSwallowed(r, exc) ==
    [r EXCEPT !.pc = IF r.op = "process_activity" THEN "athlete" ELSE "done",
              !.fetch = exc, !.result = exc,
              !.store_calls = Append(@, "athlete_profile")]

\* The fetch raised exc: the call ends with it (through process_activity's
\* except clause when that is the caller).
FetchFailed(r, exc) ==
    [r EXCEPT !.pc = "done", !.fetch = exc,
              !.result = IF r.op = "process_activity"
                         THEN ProcessActivityError(exc) ELSE exc]

\* The fetch returned its payload: a direct call is done; process_activity
\* goes on to await fetch_athlete.
FetchOk(r, payload) ==
    IF r.op = "process_activity"
    THEN [r EXCEPT !.pc = "athlete", !.fetch = Ok, !.detail = payload,
                   !.store_calls = Append(@, "athlete_profile")]
    ELSE [r EXCEPT !.pc = "done", !.fetch = Ok, !.result = Ok]

\* http_client.get with `Authorization: Bearer token`, awaited.
IssueGet(r, token, at) ==
    [r EXCEPT !.pc = at, !.access_token = token,
              !.gets = Append(@, [token |-> token, status |-> 0])]

\* A call of refresh up to its first await: without a stored refresh token it
\* raises; otherwise the token request is sent and awaited.
BeginRefresh(r, c, trigger) ==
    IF HasRefreshToken(c, r.prov)
    THEN [r EXCEPT !.pc = "token_post",
                   !.refreshes = Append(@, [trigger |-> trigger, posts |-> 1,
                        refresh_token |-> RedisGet(c, RefreshKey(r.prov)),
                        exc |-> Pending, token |-> None, writes |-> <<>>,
                        expires_in |-> None, hasRefresh |-> FALSE,
                        mode |-> "pending"])]
    ELSE FetchFailed(
           [r EXCEPT !.refreshes = Append(@, [trigger |-> trigger,
                        posts |-> 0,
                        refresh_token |-> RedisGet(c, RefreshKey(r.prov)),
                        exc |-> MissingRefreshTokenError(r.prov), token |-> None,
                        writes |-> <<>>, expires_in |-> None, hasRefresh |-> FALSE,
                        mode |-> "no_refresh_token"])],
           MissingRefreshTokenError(r.prov))

\* Mutant of UseCached: the cached token is ignored.
UseCachedNever(token) == FALSE

\* get_token: _ensure_access_token / the head of fetch_measurements. The
\* cached token when it is truthy, else refresh.
UseCached(token) == Truthy(token)

\* The start of a fetch up to its first await.
BeginFetch(r, c) ==
    LET token == RedisGet(c, AccessKey(r.prov))
        r1 == [r EXCEPT !.cached = token]
    IN  IF UseCached(token)
        THEN IssueGet(r1, token, "get_first")
        ELSE BeginRefresh(r1, c, "get_token")

\* Requests are named in their order of arrival.
Arrived(p) == p = "r1" \/ req["r1"].op # "idle"

NewCall(p, opname, prov, id) ==
    /\ req[p].pc = "idle"
    /\ Arrived(p)
    /\ prov = provider
    /\ calls < MaxCalls
    /\ calls' = calls + 1
    /\ req' = [req EXCEPT ![p] =
                 BeginFetch([IdleReq EXCEPT !.op = opname, !.prov = prov,
                                           !.activity_id = id], cache)]

\* StravaClient.get_activity called on its own.
GetActivity(p) ==
    /\ NewCall(p, "get_activity", "strava", 1)
    /\ UNCHANGED <<provider, cache, nextResp, pages, nextPage, saveLog, raced, lastWrite>>

\* WithingsMeasurementsAdapter.fetch_measurements.
FetchMeasurements(p) ==
    /\ NewCall(p, "fetch_measurements", "withings", 0)
    /\ UNCHANGED <<provider, cache, nextResp, pages, nextPage, saveLog, raced, lastWrite>>

\* Mutant of TokenForGet: the Authorization header keeps the token the call
\* started with.
TokenForGetStale(r, out) ==
    IF r.access_token # None THEN r.access_token ELSE out.token

\* `access_token = await self._refresh_access_token()`: the token the next
\* GET carries is the one this refresh returned.
TokenForGet(r, out) == out.token

\* The token endpoint answers the awaited POST; refresh finishes, and the
\* fetch that called it runs on to its next await (the first or the retry GET).
TokenResponse(p) ==
    /\ req[p].pc = "token_post"
    /\ \E resp \in TokenResponses(req[p].prov) :
         LET r == req[p]
             n == Len(r.refreshes)
             out == RefreshOutcome(r.prov, resp, nextResp)
             r1 == [r EXCEPT !.refreshes[n].exc = out.exc,
                             !.refreshes[n].token = out.token,
                             !.refreshes[n].writes = out.writes,
                             !.refreshes[n].expires_in =
                                 IF out.exc = Ok THEN resp.expires_in ELSE None,
                             !.refreshes[n].hasRefresh =
                                 out.exc = Ok /\ resp.hasRefresh,
                             !.refreshes[n].mode = AnswerKind(r.prov, resp)]
         IN  /\ out.exc = Ok => nextResp <= MaxResp
             /\ cache' = ApplyWrites(cache, out.writes)
             /\ nextResp' = IF out.exc = Ok THEN nextResp + 1 ELSE nextResp
             /\ lastWrite' = IF out.exc = Ok
                             THEN [resp |-> nextResp, hasRefresh |-> resp.hasRefresh]
                             ELSE lastWrite
             /\ req' = [req EXCEPT ![p] =
                          IF out.exc # Ok THEN FetchFailed(r1, out.exc)
                          ELSE IssueGet(r1, TokenForGet(r1, out),
                                  IF r.refreshes[n].trigger = "get_token"
                                  THEN "get_first" ELSE "get_retry")]
    /\ UNCHANGED <<provider, calls, pages, nextPage, saveLog, raced>>

\* response.raise_for_status() / the Withings body status check, then return.
FinishGet(r, resp, payload) ==
    IF r.prov = "strava"
    THEN IF resp.status >= 400
         THEN FetchFailed(r, HTTPStatusError(resp.status))
         ELSE FetchOk(r, payload)
    ELSE IF resp.apiStatus # 0
         THEN FetchFailed(r, MeasureApiError)
         ELSE FetchOk(r, payload)

\* The body of a 200 answer: for the activity fetch of process_activity one
\* of the activity details with the id asked for; not looked at otherwise.
Payloads(r, resp) ==
    IF r.op = "process_activity" /\ resp.kind = "http" /\ resp.status = 200
    THEN {d \in Details : d.id = r.activity_id}
    ELSE {None}

\* Mutant of NeedsRetry: any error status is retried.
NeedsRetryOnAnyError(resp) == resp.status >= 400

\* `if response.status_code == 401:` after the first GET.
NeedsRetry(resp) == resp.status = 401

\* The read endpoint answers the first GET.
FirstGetResponse(p) ==
    /\ req[p].pc = "get_first"
    /\ \E resp \in GetResponses(req[p].prov) : \E payload \in Payloads(req[p], resp) :
         LET r == [req[p] EXCEPT !.gets[1].status =
                       IF resp.kind = "http" THEN resp.status ELSE -1]
         IN  req' = [req EXCEPT ![p] =
                       IF resp.kind # "http" THEN FetchFailed(r, TransportError(resp.kind))
                       ELSE IF NeedsRetry(resp) THEN BeginRefresh(r, cache, "401")
                       ELSE FinishGet(r, resp, payload)]
    /\ UNCHANGED <<provider, cache, nextResp, calls, pages, nextPage, saveLog, raced, lastWrite>>

\* The read endpoint answers the retry GET: no second look at a 401.
RetryGetResponse(p) ==
    /\ req[p].pc = "get_retry"
    /\ \E resp \in GetResponses(req[p].prov) : \E payload \in Payloads(req[p], resp) :
         LET r == [req[p] EXCEPT !.gets[2].status =
                       IF resp.kind = "http" THEN resp.status ELSE -1]
         IN  req' = [req EXCEPT ![p] =
                       IF resp.kind # "http" THEN FetchFailed(r, TransportError(resp.kind))
                       ELSE FinishGet(r, resp, payload)]
    /\ UNCHANGED <<provider, cache, nextResp, calls, pages, nextPage, saveLog, raced, lastWrite>>

\* A key whose TTL has run out vanishes from the cache. (The refresh-token
\* key lives a year, far longer than any request: only access tokens expire
\* while requests run.)
Expire(key) ==
    /\ cache[key].value # None
    /\ cache[key].ex # None
    /\ cache' = [cache EXCEPT ![key] = NoKey]
    /\ UNCHANGED <<provider, nextResp, calls, req, pages, nextPage, saveLog, raced, lastWrite>>

\* The caller has its result; the slot serves the next request.
Return(p) ==
    /\ req[p].pc = "done"
    /\ req' = [req EXCEPT ![p] = IdleReq]
    /\ UNCHANGED <<provider, cache, nextResp, calls, pages, nextPage, saveLog, raced, lastWrite>>

\* The cache as the operator set it up: for each provider the tokens of the
\* initial authorisation, or nothing.
SeedCaches ==
    {c \in [Keys -> {NoKey} \cup {[value |-> t, ex |-> None] :
                         t \in {AccessTokenOf(0), RefreshTokenOf(0)}}] :
        \A prov \in Providers :
            /\ c[AccessKey(prov)].value \in {None, AccessTokenOf(0)}
            /\ c[RefreshKey(prov)].value \in {None, RefreshTokenOf(0)}
            /\ prov # provider => c[AccessKey(prov)] = NoKey /\ c[RefreshKey(prov)] = NoKey}

InitCommon ==
    /\ nextResp = 1
    /\ calls = 0
    /\ req = [p \in Procs |-> IdleReq]
    /\ pages = {}
    /\ nextPage = 1
    /\ saveLog = <<>>
    /\ raced = {}
    /\ lastWrite = [resp |-> 0, hasRefresh |-> TRUE]


----------------------------------------------------------------------------
(* estimate_if_tss_from_hr (domain/body_metrics/hr.py), in fixed point:    *)
(* heart rates in hundredths of a beat, the intensity factor in 1/10000.   *)

Max(a, b) == IF a >= b THEN a ELSE b
Min(a, b) == IF a <= b THEN a ELSE b

\* a / b rounded to the nearest integer (a >= 0, b > 0).
RoundDiv(a, b) == (2 * a + b) \div (2 * b)

\* The athlete's resting heart rate, 66 when missing or not positive.
DefaultRestHr == 66

\* Mutant of ClampIf: the estimate is not clamped.
ClampIfNot(if_value) == if_value

\* max(0.30, min(1.35, if_base + bump)), in 1/10000.
ClampIf(if_value) == Max(3000, Min(13500, if_value))

EstimateIfTssFromHr(hr_avg_session, hr_max_session, dur_s, hr_max_athlete, hr_rest_athlete) ==
    IF \/ hr_avg_session = None \/ hr_max_session = None \/ dur_s = None
       \/ hr_max_athlete = None
    THEN None
    ELSE IF \/ dur_s[1] <= 0 \/ hr_avg_session[1] <= 0 \/ hr_max_session[1] <= 0
            \/ hr_max_athlete[1] <= 0
    THEN None
    ELSE
    LET avg == 100 * hr_avg_session[1]
        mx == 100 * hr_max_session[1]
        hmax == 100 * hr_max_athlete[1]
        rest == 100 * (IF hr_rest_athlete # None /\ hr_rest_athlete[1] > 0
                       THEN hr_rest_athlete[1] ELSE DefaultRestHr)
        lthr_guess == 90 * hr_max_athlete[1]
        lthr_candidate == Min(lthr_guess,
                              Max(85 * hr_max_athlete[1], 98 * hr_max_session[1]))
        lthr == IF lthr_candidate <= rest + 1000 THEN lthr_guess ELSE lthr_candidate
        hr_range == Max(100, hmax - rest)
        thr_range == Max(100, lthr - rest)
        supra == Max(0, mx - lthr)
        supra_cap == Max(100, hmax - lthr)
        if_base == (10000 * (avg - rest)) \div thr_range
        bump == (800 * supra) \div supra_cap
        if_raw == IF avg <= rest + 500 THEN 3000
                  ELSE ClampIf(if_base + bump)
        if_est == IF thr_range <= 100 /\ hr_range <= 100 THEN 3000 ELSE if_raw
        \* tss = dur_s / 3600 * if_est * 100; round(if_est, 2), round(tss, 1)
    IN  <<Rat(RoundDiv(if_est, 100), 100),
          Rat(RoundDiv(dur_s[1] * if_est, 36000), 10)>>

----------------------------------------------------------------------------
(* Notion workout store: NotionWorkoutAdapter (workout_repository.py)      *)

\* fetch_latest_athlete_profile: {} when the profile database is empty, else
\* ftp, weight and max_hr of the newest entry (it never yields resting_hr).
NoProfile == [ftp |-> None, weight |-> None, max_hr |-> None, resting_hr |-> None]

Profiles ==
    {NoProfile,
     [ftp |-> Num(200), weight |-> Num(70), max_hr |-> Num(190), resting_hr |-> None]}

\* _add_number_prop: the property is set only for a value that is not None.
AddNumberProp(props, name, value) ==
    IF value # None THEN (name :> value) @@ props ELSE props

\* The properties save_workout sends, for create and update alike: the base
\* properties always, with None where the detail has no value and "Gym" for
\* a missing type (Date and Day of week, always sent too, are left out);
\* the other numbers and the notes only when there is a value.
BuildProps(detail, tss, intensity_factor) ==
    LET base == [n \in {"Name", "Duration [s]", "Distance [m]", "Type", "Id"} |->
                   CASE n = "Name" -> detail.name
                     [] n = "Duration [s]" -> detail.elapsed_time
                     [] n = "Distance [m]" -> detail.distance
                     [] n = "Type" -> IF Truthy(detail.type) THEN detail.type[1] ELSE "Gym"
                     [] n = "Id" -> detail.id]
        p1 == AddNumberProp(base, "Average Heartrate", detail.average_heartrate)
        p2 == AddNumberProp(p1, "Max Heartrate", detail.max_heartrate)
        p3 == AddNumberProp(p2, "TSS", tss)
        p4 == AddNumberProp(p3, "IF", intensity_factor)
    IN  IF Truthy(detail.description)
        THEN ("Notes" :> detail.description[1]) @@ p4
        ELSE p4

\* Mutant of QueryById: the Id filter is lost, every page matches.
QueryIgnoringId(P, id) == P

\* Notion's answer to {"filter": {"property": "Id", "number": {"equals": id}}}.
QueryById(P, id) == {pg \in P : pg.props["Id"] = id}

\* Mutant of Found: the query result is ignored, a page is always created.
FoundNever(results) == FALSE

\* `if results:` - update the page found, else create.
Found(results) == results # {}

\* PATCH /pages/{id}: the properties sent replace the stored ones, the
\* others stay.
UpdatePage(pg, props) == [pg EXCEPT !.props = props @@ pg.props]

\* Mutant of OrEstimate: the estimate, when there is one, replaces the value
\* whether the caller passed it or not.
EstimateFirst(value, estimate, i) ==
    IF estimate # None THEN estimate[i] ELSE value

\* `if estimate: if intensity_factor is None: intensity_factor = estimate[0]`
\* and the same for tss with estimate[1].
OrEstimate(value, estimate, i) ==
    IF value = None /\ estimate # None THEN estimate[i] ELSE value

\* save_workout from its start to the existence query it awaits: the HR-based
\* estimate fills the metrics the caller left None, the properties are built,
\* the query is sent.
SendQuery(r, athlete) ==
    LET estimate == EstimateIfTssFromHr(
                        r.detail.average_heartrate, r.detail.max_heartrate,
                        IF TruthyNum(r.detail.moving_time)
                        THEN r.detail.moving_time ELSE r.detail.elapsed_time,
                        athlete.max_hr, athlete.resting_hr)
        if_ == OrEstimate(r.intensity_factor, estimate, 1)
        tss_ == OrEstimate(r.tss, estimate, 2)
    IN  [r EXCEPT !.pc = "save_query", !.tss = tss_, !.intensity_factor = if_,
                  !.estimate = estimate,
                  !.props = BuildProps(r.detail, tss_, if_),
                  !.store_calls = Append(@, "query_by_id")]

\* save_workout up to its first await; caller_tss and caller_if keep the
\* arguments it was called with.
BeginSave(r) ==
    IF r.intensity_factor = None \/ r.tss = None
    THEN [r EXCEPT !.pc = "save_athlete",
                   !.caller_tss = r.tss, !.caller_if = r.intensity_factor,
                   !.store_calls = Append(@, "athlete_profile")]
    ELSE [r EXCEPT !.pc = "save_query",
                   !.caller_tss = r.tss, !.caller_if = r.intensity_factor,
                   !.props = BuildProps(r.detail, r.tss, r.intensity_factor),
                   !.store_calls = Append(@, "query_by_id")]

\* Metrics a caller hands to save_workout: none, or both IF and TSS.
CallerMetrics == {[tss |-> None, intensity_factor |-> None],
                  [tss |-> Rat(55125, 10000), intensity_factor |-> Rat(105, 100)]}

\* The same with one of the two left None as well (tss and intensity_factor
\* are separate optional arguments).
OptionalMetrics ==
    [tss : {None, Rat(55125, 10000)}, intensity_factor : {None, Rat(105, 100)}]

\* A save_workout call for id starts: it overlaps every call for the same id
\* that has started saving and is not done.
RacedAfter(p, id) ==
    IF \E q \in Procs \ {p} :
          /\ req[q].pc \in {"save_athlete", "save_query", "save_update", "save_create"}
          /\ req[q].detail.id = id
    THEN raced \cup {id} ELSE raced

\* save_workout called on its own, with metrics out of the given set.
SaveWorkoutWith(p, metrics) ==
    /\ req[p].pc = "idle"
    /\ Arrived(p)
    /\ calls < MaxCalls
    /\ calls' = calls + 1
    /\ \E detail \in Details, m \in metrics :
         /\ req' = [req EXCEPT ![p] =
                      BeginSave([IdleReq EXCEPT !.op = "save_workout",
                                    !.detail = detail, !.tss = m.tss,
                                    !.intensity_factor = m.intensity_factor])]
         /\ raced' = RacedAfter(p, detail.id)
    /\ UNCHANGED <<provider, cache, nextResp, pages, nextPage, saveLog, lastWrite>>

\* save_workout called on its own (a manual workout submission).
SaveWorkout(p) == SaveWorkoutWith(p, CallerMetrics)

\* A failed Notion call: NotionClient._request raises HTTPException, with
\* status 504 on a read timeout and with Notion's status when that is 400 or
\* more.
NotionError == Exc("HTTPException", "notion")

NotionTimeout == Exc("HTTPException", "504 Request to Notion timed out")

\* What a Notion call ends in.
NotionAnswers == {Ok, NotionError, NotionTimeout}

\* Notion answers the athlete-profile query of save_workout.
SaveAthleteResponse(p) ==
    /\ req[p].pc = "save_athlete"
    /\ \E ans \in NotionAnswers, athlete \in Profiles :
         req' = [req EXCEPT ![p] =
                   IF ans = Ok THEN SendQuery(req[p], athlete)
                   ELSE [req[p] EXCEPT !.pc = "done", !.result = ans]]
    /\ UNCHANGED <<provider, cache, nextResp, calls, pages, nextPage, saveLog, raced, lastWrite>>

\* Notion evaluates the existence query (page_size 1: one of the matching
\* pages, or none); save_workout then sends the update or the create.
ExistsQueryResponse(p) ==
    /\ req[p].pc = "save_query"
    /\ \E ans \in NotionAnswers :
         LET r == req[p]
             results == QueryById(pages, r.detail.id)
         IN  IF ans # Ok
             THEN req' = [req EXCEPT ![p] =
                            [r EXCEPT !.pc = "done", !.result = ans]]
             ELSE IF Found(results)
             THEN \E pg \in results :
                    req' = [req EXCEPT ![p] =
                              [r EXCEPT !.pc = "save_update", !.page_id = pg.id,
                                        !.queried_at = Len(saveLog),
                                        !.store_calls = Append(@, "update")]]
             ELSE req' = [req EXCEPT ![p] =
                            [r EXCEPT !.pc = "save_create",
                                      !.queried_at = Len(saveLog),
                                      !.store_calls = Append(@, "create")]]
    /\ UNCHANGED <<provider, cache, nextResp, calls, pages, nextPage, saveLog, raced, lastWrite>>

LogEntry(kind, r, page_id) ==
    [kind |-> kind, id |-> r.detail.id, page_id |-> page_id,
     queried_at |-> r.queried_at]

\* Notion applies the PATCH of the page found.
UpdateResponse(p) ==
    /\ req[p].pc = "save_update"
    /\ \E ans \in NotionAnswers :
         LET r == req[p] IN
         IF ans = Ok
         THEN /\ pages' = {IF pg.id = r.page_id THEN UpdatePage(pg, r.props) ELSE pg :
                              pg \in pages}
              /\ saveLog' = Append(saveLog, LogEntry("update", r, r.page_id))
              /\ req' = [req EXCEPT ![p] = [r EXCEPT !.pc = "done", !.result = Ok]]
         ELSE /\ req' = [req EXCEPT ![p] =
                           [r EXCEPT !.pc = "done", !.result = ans]]
              /\ UNCHANGED <<pages, saveLog>>
    /\ UNCHANGED <<provider, cache, nextResp, calls, nextPage, raced, lastWrite>>

\* Notion applies the POST of a new page.
CreateResponse(p) ==
    /\ req[p].pc = "save_create"
    /\ \E ans \in NotionAnswers :
         LET r == req[p] IN
         IF ans = Ok
         THEN /\ pages' = pages \cup {[id |-> nextPage, props |-> r.props]}
              /\ nextPage' = nextPage + 1
              /\ saveLog' = Append(saveLog, LogEntry("create", r, nextPage))
              /\ req' = [req EXCEPT ![p] = [r EXCEPT !.pc = "done", !.result = Ok]]
         ELSE /\ req' = [req EXCEPT ![p] =
                           [r EXCEPT !.pc = "done", !.result = ans]]
              /\ UNCHANGED <<pages, nextPage, saveLog>>
    /\ UNCHANGED <<provider, cache, nextResp, calls, raced, lastWrite>>

----------------------------------------------------------------------------
(* The pure functions of domain/body_metrics and strava/domain, called on  *)
(* their own                                                               *)

\* A call of a pure function: its arguments and its value are kept with the
\* request.
Called(p, opname, args, value) ==
    /\ req[p].pc = "idle"
    /\ Arrived(p)
    /\ req' = [req EXCEPT ![p] =
                 [IdleReq EXCEPT !.op = opname, !.pc = "done", !.result = Ok,
                                 !.args = args, !.value = value]]
    /\ UNCHANGED <<provider, cache, nextResp, calls, pages, nextPage, saveLog, raced, lastWrite>>

\* Heart rates, durations and athlete values estimate_if_tss_from_hr is
\* called with: missing, not positive, and positive ones on both sides of
\* its thresholds.
SessionHrs == {None, Num(-5), Num(0), Num(60), Num(70), Num(72), Num(150), Num(185), Num(250)}
Durations == {None, Num(-1), Num(0), Num(1), Num(1800), Num(3600)}
AthleteMaxHrs == {None, Num(-190), Num(0), Num(67), Num(190)}
AthleteRestHrs == {None, Num(-3), Num(0), Num(60), Num(189), Num(250)}

EstimateIfTss(p) ==
    \E hr_avg_session \in SessionHrs, hr_max_session \in SessionHrs,
       dur_s \in Durations, hr_max_athlete \in AthleteMaxHrs,
       hr_rest_athlete \in AthleteRestHrs :
        Called(p, "estimate_if_tss_from_hr",
               [hr_avg_session |-> hr_avg_session, hr_max_session |-> hr_max_session,
                dur_s |-> dur_s, hr_max_athlete |-> hr_max_athlete,
                hr_rest_athlete |-> hr_rest_athlete],
               EstimateIfTssFromHr(hr_avg_session, hr_max_session, dur_s,
                                   hr_max_athlete, hr_rest_athlete))

----------------------------------------------------------------------------
(* hr_drift_from_splits (domain/body_metrics/hr.py), in exact fractions    *)

\* Splits in one call.
MaxSplits == 5

\* What a split may hold as average_heartrate: nothing, something float()
\* rejects, and numbers.
HrSamples == {None, NotANumber, Num(-10), Num(0), Num(150), Num(160)}

\* The lists of splits of a call, each split by its average_heartrate.
SplitLists == UNION {[1..n -> HrSamples] : n \in 0..MaxSplits}

\* The heart rates average_hr keeps of a list: those that are there, that
\* float() accepts and that are positive.
RECURSIVE KeptHrs(_)
KeptHrs(values) ==
    IF values = <<>> THEN <<>>
    ELSE LET hr == Head(values) IN
         IF hr = None THEN KeptHrs(Tail(values))
         ELSE IF ~IsFloat(hr) THEN KeptHrs(Tail(values))
         ELSE IF hr[1] <= 0 THEN KeptHrs(Tail(values))
         ELSE <<hr[1]>> \o KeptHrs(Tail(values))

RECURSIVE SumSeq(_)
SumSeq(s) == IF s = <<>> THEN 0 ELSE Head(s) + SumSeq(Tail(s))

\* average_hr: sum(hrs) / len(hrs), None when no heart rate is kept.
AverageHr(values) ==
    LET hrs == KeptHrs(values) IN
    IF hrs = <<>> THEN None ELSE Rat(SumSeq(hrs), Len(hrs))

\* Mutant of Half: with an odd count the extra split goes to the first half.
HalfRoundedUp(n) == (n + 1) \div 2

\* half = len(splits) // 2
Half(n) == n \div 2

\* hr_drift_from_splits: (second_avg - first_avg) / first_avg * 100, and
\* 0.0 when there is no split, no first half, or a half without heart rate.
HrDriftFromSplits(splits) ==
    IF splits = <<>> THEN Num(0)
    ELSE LET half == Half(Len(splits)) IN
         IF half = 0 THEN Num(0)
         ELSE LET first_avg == AverageHr(SubSeq(splits, 1, half))
                  second_avg == AverageHr(SubSeq(splits, half + 1, Len(splits)))
              IN  IF first_avg = None \/ second_avg = None THEN Num(0)
                  ELSE IF first_avg[1] = 0 THEN Num(0)
                  ELSE Rat(100 * (second_avg[1] * first_avg[2]
                                  - first_avg[1] * second_avg[2]),
                           first_avg[1] * second_avg[2])

HrDrift(p) ==
    \E splits \in SplitLists :
        Called(p, "hr_drift_from_splits", splits, HrDriftFromSplits(splits))

----------------------------------------------------------------------------
(* add_moving_average (domain/body_metrics/moving_average.py)              *)

\* Measurements in one call.
MaxSamples == 4

\* The tracked metrics, in the order of the loops.
Metrics ==
    <<"weight_kg", "fat_mass_kg", "muscle_mass_kg", "bone_mass_kg", "hydration_kg",
      "fat_free_mass_kg", "body_fat_percent">>

MetricNames == {Metrics[i] : i \in 1..Len(Metrics)}

\* The values of a measurement: every metric at 10 or at 30, none at all,
\* or every metric at 20 but the first or the last one.
SampleValues ==
    {[m \in MetricNames |-> Num(10)], [m \in MetricNames |-> Num(30)],
     [m \in MetricNames |-> None],
     [m \in MetricNames |-> IF m = "weight_kg" THEN None ELSE Num(20)],
     [m \in MetricNames |-> IF m = "body_fat_percent" THEN None ELSE Num(20)]}

\* The lists of measurements of a call: handed over in the order of their
\* measurement times or in the reverse order.
MeasurementLists ==
    UNION {{[i \in 1..n |-> [measurement_time |-> IF up THEN i ELSE n + 1 - i,
                             values |-> vs[i], moving_average_7d |-> None]] :
               vs \in [1..n -> SampleValues], up \in BOOLEAN} :
           n \in 0..MaxSamples}

\* The window sizes of a call (7 when the caller names none).
Windows == {3, 7}

\* sorted(measurements, key=measurement_time): a stable sort.
RECURSIVE InsertByTime(_, _)
InsertByTime(sorted, m) ==
    IF sorted = <<>> THEN <<m>>
    ELSE IF Head(sorted).measurement_time <= m.measurement_time
    THEN <<Head(sorted)>> \o InsertByTime(Tail(sorted), m)
    ELSE <<m>> \o sorted

RECURSIVE SortedByTime(_)
SortedByTime(measurements) ==
    IF measurements = <<>> THEN <<>>
    ELSE InsertByTime(SortedByTime(SubSeq(measurements, 1, Len(measurements) - 1)),
                      measurements[Len(measurements)])

\* deque(maxlen=window).append(v)
DequeAppend(q, v, window) ==
    IF Len(q) < window THEN Append(q, v) ELSE Append(Tail(q), v)

IsNotNone(v) == v # None

RECURSIVE SumValues(_)
SumValues(values) ==
    IF values = <<>> THEN 0 ELSE Head(values)[1] + SumValues(Tail(values))

\* Mutant of HasMinValues: two values are enough.
HasTwoValues(values) == Len(values) >= 2

\* len(values) >= min_values
HasMinValues(values) == Len(values) >= 3

\* The averages collected for a measurement: those of the metrics, in
\* their order, before the first one with too few values in its queue.
Averages(queues) ==
    LET values(metric) == SelectSeq(queues[metric], IsNotNone)
        short == {i \in 1..Len(Metrics) : ~HasMinValues(values(Metrics[i]))}
        n == IF short = {} THEN Len(Metrics)
             ELSE (CHOOSE i \in short : \A j \in short : i <= j) - 1
    IN  [m \in {Metrics[i] : i \in 1..n} |->
           Rat(SumValues(values(m)), Len(values(m)))]

\* The loop over the sorted measurements.
RECURSIVE AttachAverages(_, _, _, _)
AttachAverages(rest, queues, window, out) ==
    IF rest = <<>> THEN out
    ELSE LET m == Head(rest)
             q == [metric \in MetricNames |->
                     DequeAppend(queues[metric], m.values[metric], window)]
             averages == Averages(q)
         IN  AttachAverages(
                 Tail(rest), q, window,
                 Append(out,
                        IF DOMAIN averages = MetricNames
                        THEN [m EXCEPT !.moving_average_7d = averages]
                        ELSE [m EXCEPT !.moving_average_7d = None]))

AddMovingAverage(measurements, window) ==
    AttachAverages(SortedByTime(measurements), [metric \in MetricNames |-> <<>>],
                   window, <<>>)

MovingAverage(p) ==
    \E measurements \in MeasurementLists, window \in Windows :
        Called(p, "add_moving_average",
               [measurements |-> measurements, window |-> window],
               AddMovingAverage(measurements, window))

----------------------------------------------------------------------------
(* vo2max_minutes (domain/body_metrics/vo2.py), fractions in 1/10000       *)

\* Splits (or laps) in one call.
MaxLaps == 3

\* Splits by moving_time, average_heartrate and max_heartrate: two with all
\* three positive, the others with one of them missing or not positive.
Split(moving_time, average_heartrate, max_heartrate) ==
    [moving_time |-> moving_time, average_heartrate |-> average_heartrate,
     max_heartrate |-> max_heartrate]

VoSplits ==
    {Split(Num(60), Num(175), Num(185)), Split(Num(120), Num(160), Num(170)),
     Split(None, Num(175), Num(185)), Split(Num(60), Num(0), Num(185)),
     Split(Num(60), Num(175), Num(-180)), Split(Num(-30), Num(175), None)}

VoSplitLists == UNION {[1..n -> VoSplits] : n \in 0..MaxLaps}

\* The athlete's max_hr as vo2max_minutes may get it.
MaxHrs == {None, Num(0), Num(-180), Num(190)}

\* clamp(value), 0.0 to 1.0.
Clamp(value) == Max(0, Min(10000, value))

\* relative_excess_above_threshold, the threshold at 0.88 of max_hr.
RelativeExcessAboveThreshold(x_fraction_of_hrmax) ==
    Clamp(((x_fraction_of_hrmax - 8800) * 10000) \div 1200)

\* exp(-lap_seconds / 30), for the durations of VoSplits.
ExpNeg(lap_seconds) ==
    CASE lap_seconds = 30 -> 3679
      [] lap_seconds = 60 -> 1353
      [] lap_seconds = 120 -> 183

\* `x or 0` of an optional number.
OrZero(v) == IF TruthyNum(v) THEN v[1] ELSE 0

\* Mutant of SkipsSplit: only the duration is looked at.
SkipsSplitOnDuration(lap_seconds, avg_hr, peak_hr) == lap_seconds <= 0

\* `if lap_seconds <= 0 or avg_hr <= 0 or peak_hr <= 0: continue`
SkipsSplit(lap_seconds, avg_hr, peak_hr) ==
    lap_seconds <= 0 \/ avg_hr <= 0 \/ peak_hr <= 0

\* What one split adds to total_vo2_seconds, in 1/10000 s.
SplitVo2Seconds(split, max_hr) ==
    LET lap_seconds == OrZero(split.moving_time)
        avg_hr == OrZero(split.average_heartrate)
        peak_hr == OrZero(split.max_heartrate)
    IN  IF SkipsSplit(lap_seconds, avg_hr, peak_hr) THEN 0
        ELSE LET avg_evidence ==
                     RelativeExcessAboveThreshold((10000 * avg_hr) \div max_hr)
                 peak_evidence ==
                     RelativeExcessAboveThreshold((10000 * peak_hr) \div max_hr)
                 settling_factor == Clamp(10000 - ExpNeg(lap_seconds))
                 peak_add_back ==
                     (((7000 * settling_factor) \div 10000) * peak_evidence) \div 10000
                 fraction_in_vo2_zone ==
                     Clamp(avg_evidence
                           + ((10000 - avg_evidence) * peak_add_back) \div 10000)
             IN  fraction_in_vo2_zone * lap_seconds

RECURSIVE TotalVo2Seconds(_, _)
TotalVo2Seconds(splits, max_hr) ==
    IF splits = <<>> THEN 0
    ELSE SplitVo2Seconds(Head(splits), max_hr) + TotalVo2Seconds(Tail(splits), max_hr)

\* vo2max_minutes: 0.0 without splits or without a positive max_hr, else
\* total_vo2_seconds / 60 (0.0 again for a total of 0.0).
Vo2maxMinutes(splits, max_hr) ==
    IF splits = <<>> \/ ~TruthyNum(max_hr) THEN Num(0)
    ELSE IF max_hr[1] <= 0 THEN Num(0)
    ELSE LET total_vo2_seconds == TotalVo2Seconds(splits, max_hr[1])
         IN  IF total_vo2_seconds = 0 THEN Num(0)
             ELSE Rat(total_vo2_seconds, 600000)

Vo2max(p) ==
    \E splits \in VoSplitLists, max_hr \in MaxHrs :
        Called(p, "vo2max_minutes", [splits |-> splits, max_hr |-> max_hr],
               Vo2maxMinutes(splits, max_hr))

----------------------------------------------------------------------------
(* StravaActivityCoordinator.process_activity (strava/application)         *)

\* The average heart rates of a list of splits, as hr_drift_from_splits
\* reads them.
HeartRates(splits) == [i \in 1..Len(splits) |-> splits[i].average_heartrate]

\* Mutant of UsesLaps: two laps are enough.
UsesLapsFromTwo(laps) == Len(laps) >= 2

\* `laps if len(laps) > 2 else splits`
UsesLaps(laps) == Len(laps) > 2

\* compute_activity_metrics: the drift of the metric splits; the VO2
\* minutes of the laps or of the splits, 0.0 without a truthy max_hr; the
\* power-based IF = weighted watts / ftp and
\* TSS = moving_time * watts * IF / (ftp * 3600) * 100, each only when its
\* inputs are truthy.
ComputeActivityMetrics(activity, athlete) ==
    LET splits == activity.splits_metric
        laps == activity.laps
        max_hr == athlete.max_hr
        ftp == athlete.ftp
        splits_for_vo2 == IF UsesLaps(laps) THEN laps ELSE splits
        watts == activity.weighted_average_watts
        moving_time == activity.moving_time
        powered == TruthyNum(ftp) /\ TruthyNum(watts)
    IN  [hr_drift |-> HrDriftFromSplits(HeartRates(splits)),
         vo2 |-> IF TruthyNum(max_hr) THEN Vo2maxMinutes(splits_for_vo2, max_hr)
                 ELSE Num(0),
         intensity_factor |-> IF powered THEN Rat(watts[1], ftp[1]) ELSE None,
         tss |-> IF powered /\ TruthyNum(moving_time)
                 THEN Rat(moving_time[1] * watts[1] * watts[1] * 100,
                          ftp[1] * ftp[1] * 3600)
                 ELSE None]

\* The splits and laps of the activities compute_activity_metrics is called
\* with on its own: up to MaxLaps of each, with heart rates or without.
LapLists ==
    UNION {[1..n -> {Split(Num(60), Num(175), Num(185)),
                     Split(Num(120), Num(160), Num(170)),
                     Split(Num(60), None, None)}] : n \in 0..MaxLaps}

\* The athlete profiles compute_activity_metrics may get: those of
\* Profiles and one with a max_hr of 0.
MetricProfiles == Profiles \cup {[NoProfile EXCEPT !.max_hr = Num(0)]}

ComputeMetrics(p) ==
    \E detail \in Details, splits \in LapLists, laps \in LapLists,
       athlete \in MetricProfiles :
        LET activity == [detail EXCEPT !.splits_metric = splits, !.laps = laps]
        IN  Called(p, "compute_activity_metrics",
                   [activity |-> activity, athlete |-> athlete],
                   ComputeActivityMetrics(activity, athlete))

\* persist_activity: json.dumps of the dumped activity, gzip.compress, then
\* base64.b64encode; the encodings are kept as tags around what they encode.
Attachment(detail) == <<"base64", <<"gzip", <<"json", detail>>>>>>

\* process_activity(activity_id): starts with the activity fetch.
ProcessActivity(p) ==
    /\ \E id \in ActivityIds : NewCall(p, "process_activity", "strava", id)
    /\ UNCHANGED <<provider, cache, nextResp, pages, nextPage, saveLog, raced, lastWrite>>

\* Notion answers fetch_athlete; compute_metrics and persist_activity run on
\* to save_workout's first await.
AthleteResponse(p) ==
    /\ req[p].pc = "athlete"
    /\ \E ans \in NotionAnswers, athlete \in Profiles :
         LET r == req[p]
             m == ComputeActivityMetrics(r.detail, athlete)
         IN  IF ans = Ok
             THEN /\ req' = [req EXCEPT ![p] =
                               BeginSave([r EXCEPT !.tss = m.tss,
                                            !.intensity_factor = m.intensity_factor,
                                            !.attachment = Attachment(r.detail)])]
                  /\ raced' = RacedAfter(p, r.detail.id)
             ELSE /\ req' = [req EXCEPT ![p] =
                               [r EXCEPT !.pc = "done", !.result = ans]]
                  /\ UNCHANGED raced
    /\ UNCHANGED <<provider, cache, nextResp, calls, pages, nextPage, saveLog, lastWrite>>

----------------------------------------------------------------------------
(* The boundaries that call process_activity: the Strava webhook            *)
(* (strava_webhook.py) and the manual trigger (routes/strava.py)            *)

\* What a webhook POST may carry in X-Strava-Signature: the HMAC-SHA256 of
\* the body under the client secret, something else, or no header.
Signatures == {"valid", "invalid", "missing"}

\* Webhook bodies: not JSON, or an event by object_type and aspect_type.
Events == {"bad_json", "activity.create", "activity.update",
           "activity.delete", "athlete.update"}

\* Deliveries and manual triggers in one behaviour.
MaxEvents == 2

\* Mutant of HandlesEvent: every activity event is processed.
HandlesAnyActivityEvent(event) ==
    event \in {"activity.create", "activity.update", "activity.delete"}

\* `event.get("object_type") == "activity" and aspect in {"create", "update"}`
HandlesEvent(event) == event \in {"activity.create", "activity.update"}

\* POST /strava-webhook up to its first await: the body is parsed (400 when
\* it is not JSON), an activity create/update starts process_activity, any
\* other event is answered right away. No header of the request is read.
StravaEvent(p) ==
    /\ req[p].pc = "idle"
    /\ Arrived(p)
    /\ provider = "strava"
    /\ calls < MaxEvents
    /\ calls' = calls + 1
    /\ \E sig \in Signatures, ev \in Events, id \in ActivityIds :
         LET r == [IdleReq EXCEPT !.boundary = "webhook", !.signature = sig,
                                  !.event = ev, !.object_id = id]
         IN  req' = [req EXCEPT ![p] =
                       IF ev = "bad_json"
                       THEN [r EXCEPT !.op = "strava_event", !.pc = "done",
                                      !.result = Exc("HTTPException", "400 Invalid payload")]
                       ELSE IF HandlesEvent(ev)
                       THEN BeginFetch([r EXCEPT !.op = "process_activity",
                                           !.prov = "strava",
                                           !.activity_id = r.object_id], cache)
                       ELSE [r EXCEPT !.op = "strava_event", !.pc = "done",
                                      !.result = Ok]]
    /\ UNCHANGED <<provider, cache, nextResp, pages, nextPage, saveLog, raced, lastWrite>>

\* POST /strava-activity/{activity_id}: process_activity is awaited, nothing
\* is caught.
TriggerStravaProcessing(p) ==
    /\ req[p].pc = "idle"
    /\ Arrived(p)
    /\ provider = "strava"
    /\ calls < MaxEvents
    /\ calls' = calls + 1
    /\ \E id \in ActivityIds :
         req' = [req EXCEPT ![p] =
                   BeginFetch([IdleReq EXCEPT !.boundary = "manual",
                                  !.op = "process_activity", !.prov = "strava",
                                  !.activity_id = id], cache)]
    /\ UNCHANGED <<provider, cache, nextResp, pages, nextPage, saveLog, raced, lastWrite>>

\* Notion's answer to a request for a page it does not hold, as
\* NotionClient._request raises it.
NotionNotFound == Exc("HTTPException", "404 Could not find page")

\* The status code of an HTTPException.
StatusOf(exc) ==
    IF exc = Exc("HTTPException", "500 Auth failure") THEN 500
    ELSE IF exc = NotionTimeout THEN 504
    ELSE IF exc \in {NotionNotFound, Exc("HTTPException", "404 Workout not found")}
    THEN 404
    ELSE 400

\* The status the sync route answers a WorkoutNotFoundError with.
WorkoutNotFoundStatus == 404

\* The HTTP status a finished request is answered with. strava_event turns
\* every exception of process_activity into HTTPException(400); the manual
\* trigger lets it pass: an HTTPException answers with its own status, any
\* other exception is an internal server error.
ResponseStatus(r) ==
    IF r.result = Ok THEN 200
    ELSE IF r.boundary = "webhook" THEN 400
    ELSE IF r.result.type = "HTTPException" THEN StatusOf(r.result)
    ELSE IF r.result.type = "WorkoutNotFoundError" THEN WorkoutNotFoundStatus
    ELSE 500

----------------------------------------------------------------------------
(* Reading the workout store back: list_recent_workouts and                *)
(* fill_missing_metrics (workout_repository.py)                            *)

\* A stored Type whose rich_text item has no "text" key: reading
\* ["text"]["content"] from it raises KeyError.
MalformedText == "rich_text item without text"

\* Pages the workout database may hold when a request arrives: a run with a
\* stored TSS and no IF, a session without Type and metrics, a bare title,
\* and two pages that do not parse (3: the Type, 4: the duration).
StoredPages ==
    {[id |-> 1, props |-> ("Name" :> "Morning Run" @@ "Id" :> 101 @@ "Type" :> "Run"
                            @@ "Duration [s]" :> Num(3600)
                            @@ "Average Heartrate" :> Num(140)
                            @@ "Max Heartrate" :> Num(175)
                            @@ "TSS" :> Num(40))],
     [id |-> 2, props |-> ("Name" :> "Strength" @@ "Id" :> 102
                            @@ "Duration [s]" :> Num(1800)
                            @@ "Average Heartrate" :> Num(150)
                            @@ "Max Heartrate" :> Num(180))],
     [id |-> 3, props |-> ("Name" :> "Swim" @@ "Id" :> 103 @@ "Type" :> MalformedText
                            @@ "Duration [s]" :> Num(1200))],
     [id |-> 4, props |-> ("Name" :> "Ride" @@ "Id" :> 104 @@ "Type" :> "Ride"
                            @@ "Duration [s]" :> NotANumber)],
     [id |-> 5, props |-> ("Name" :> "Walk")]}

\* Pages in the database at the start of a behaviour.
MaxPages == 3

\* Page ids a fill request may name: those of StoredPages and one more.
PageIds == 1..6

\* props.get(name, {}).get("number")
PropOf(props, name) == IF name \in DOMAIN props THEN props[name] ELSE None

\* _get_number: the stored number, 0.0 when there is none.
GetNumber(props, name) ==
    IF PropOf(props, name) # None THEN PropOf(props, name) ELSE Num(0)

\* type_value: the content of the stored Type, "" when there is none.
TypeValue(props) == IF "Type" \in DOMAIN props THEN props["Type"] ELSE ""

\* The number properties WorkoutLog validates.
NumberProps == {"Duration [s]", "Average Heartrate", "Max Heartrate", "TSS", "IF"}

\* _parse_workout_page: the WorkoutLog of a page, None when reading the Type
\* or validating the numbers raises.
ParseWorkoutPage(page) ==
    LET props == page.props IN
    IF TypeValue(props) = MalformedText THEN None
    ELSE IF \E name \in NumberProps :
              PropOf(props, name) # None /\ ~IsFloat(PropOf(props, name))
    THEN None
    ELSE [page_id |-> page.id,
          name |-> IF "Name" \in DOMAIN props THEN props["Name"] ELSE "",
          duration_s |-> GetNumber(props, "Duration [s]"),
          type |-> TypeValue(props),
          average_heartrate |-> PropOf(props, "Average Heartrate"),
          max_heartrate |-> PropOf(props, "Max Heartrate"),
          tss |-> PropOf(props, "TSS"),
          intensity_factor |-> PropOf(props, "IF")]

\* Mutant of KeepsStored: the estimate replaces a stored value too.
KeepsStoredNever(value) == FALSE

\* `if workout.intensity_factor is None:` and `if workout.tss is None:` - a
\* value that is stored is not estimated.
KeepsStored(value) == value # None

\* _augment_with_estimates: IF and TSS are estimated from the heart rates
\* where they are None, an empty type becomes "Gym".
AugmentWithEstimates(workout, hr_max_athlete, hr_rest_athlete) ==
    LET needs_hr_metrics ==
            /\ workout.intensity_factor = None \/ workout.tss = None
            /\ workout.average_heartrate # None
            /\ workout.max_heartrate # None
            /\ workout.duration_s[1] > 0
            /\ hr_max_athlete # None
        estimate == IF needs_hr_metrics
                    THEN EstimateIfTssFromHr(workout.average_heartrate,
                                             workout.max_heartrate, workout.duration_s,
                                             hr_max_athlete, hr_rest_athlete)
                    ELSE None
        w1 == IF estimate # None /\ ~KeepsStored(workout.intensity_factor)
              THEN [workout EXCEPT !.intensity_factor = estimate[1]] ELSE workout
        w2 == IF estimate # None /\ ~KeepsStored(workout.tss)
              THEN [w1 EXCEPT !.tss = estimate[2]] ELSE w1
    IN  IF w2.type = "" THEN [w2 EXCEPT !.type = "Gym"] ELSE w2

\* Mutant of CollectWorkouts: the first page that does not parse ends the
\* loop.
RECURSIVE CollectWorkoutsUntilFailure(_, _, _, _)
CollectWorkoutsUntilFailure(results, hr_max_athlete, hr_rest_athlete, workouts) ==
    IF results = <<>> THEN workouts
    ELSE LET workout == ParseWorkoutPage(Head(results)) IN
         IF workout # None
         THEN CollectWorkoutsUntilFailure(
                  Tail(results), hr_max_athlete, hr_rest_athlete,
                  Append(workouts, AugmentWithEstimates(workout, hr_max_athlete,
                                                        hr_rest_athlete)))
         ELSE workouts

\* The loop of list_recent_workouts over response["results"]: a page that
\* parses is augmented and appended, any other page is skipped.
RECURSIVE CollectWorkouts(_, _, _, _)
CollectWorkouts(results, hr_max_athlete, hr_rest_athlete, workouts) ==
    IF results = <<>> THEN workouts
    ELSE LET workout == ParseWorkoutPage(Head(results)) IN
         CollectWorkouts(
             Tail(results), hr_max_athlete, hr_rest_athlete,
             IF workout # None
             THEN Append(workouts, AugmentWithEstimates(workout, hr_max_athlete,
                                                        hr_rest_athlete))
             ELSE workouts)

\* The orders in which a query may return the pages of S.
Orderings(S) ==
    {s \in [1..Cardinality(S) -> S] : \A i, j \in DOMAIN s : s[i] = s[j] => i = j}

\* list_recent_workouts up to the date query it awaits.
ListRecentWorkouts(p) ==
    /\ req[p].pc = "idle"
    /\ Arrived(p)
    /\ calls < MaxCalls
    /\ calls' = calls + 1
    /\ req' = [req EXCEPT ![p] =
                 [IdleReq EXCEPT !.op = "list_recent_workouts", !.pc = "list_query",
                                 !.store_calls = <<"query">>]]
    /\ UNCHANGED <<provider, cache, nextResp, pages, nextPage, saveLog, raced, lastWrite>>

\* Notion answers the date query with the pages in the window, in some
\* order; list_recent_workouts then awaits the athlete profile.
ListQueryResponse(p) ==
    /\ req[p].pc = "list_query"
    /\ \E ans \in NotionAnswers :
         IF ans # Ok
         THEN req' = [req EXCEPT ![p] = [req[p] EXCEPT !.pc = "done", !.result = ans]]
         ELSE \E S \in SUBSET pages : \E results \in Orderings(S) :
                req' = [req EXCEPT ![p] =
                          [req[p] EXCEPT !.pc = "list_athlete",
                                         !.query_result = results,
                                         !.store_calls = Append(@, "athlete_profile")]]
    /\ UNCHANGED <<provider, cache, nextResp, calls, pages, nextPage, saveLog, raced, lastWrite>>

\* Notion answers the athlete-profile query; the loop over the pages runs
\* and list_recent_workouts returns.
ListAthleteResponse(p) ==
    /\ req[p].pc = "list_athlete"
    /\ \E ans \in NotionAnswers, athlete \in Profiles :
         req' = [req EXCEPT ![p] =
                   IF ans # Ok
                   THEN [req[p] EXCEPT !.pc = "done", !.result = ans]
                   ELSE [req[p] EXCEPT
                           !.pc = "done", !.result = Ok,
                           !.workouts = CollectWorkouts(req[p].query_result,
                                                        athlete.max_hr,
                                                        athlete.resting_hr, <<>>)]]
    /\ UNCHANGED <<provider, cache, nextResp, calls, pages, nextPage, saveLog, raced, lastWrite>>

\* NotionClient.retrieve(page_id): the page of that id, or Notion's
\* not-found error when the store holds none.
Retrieve(P, page_id) ==
    IF \E pg \in P : pg.id = page_id
    THEN [result |-> Ok, page |-> CHOOSE pg \in P : pg.id = page_id]
    ELSE [result |-> NotionNotFound, page |-> None]

\* What a sync-style caller makes of fill_missing_metrics returning None:
\* the fill route raises HTTPException(404), SyncWorkoutMetricsUseCase
\* raises WorkoutNotFoundError.
FillNotFound(boundary) ==
    IF boundary = "fill_route"
    THEN Exc("HTTPException", "404 Workout not found")
    ELSE Exc("WorkoutNotFoundError", "Workout not found")

\* fill_missing_metrics once retrieve returned a page: it is parsed; None
\* is returned when that fails, else the athlete profile is awaited.
Retrieved(r, page) ==
    LET workout == ParseWorkoutPage(page) IN
    IF workout = None
    THEN [r EXCEPT !.pc = "done", !.result = FillNotFound(r.boundary)]
    ELSE [r EXCEPT !.pc = "fill_athlete", !.workout = workout,
                   !.store_calls = Append(@, "athlete_profile")]

\* Mutant of RetrieveFailed: the error is swallowed and a page without
\* properties stands in for the missing one.
RetrieveFailedAsBlank(r, exc) ==
    Retrieved(r, [id |-> r.page_id, props |-> [n \in {} |-> None]])

\* `await self._client.retrieve(page_id)` raised: fill_missing_metrics and
\* its callers catch nothing, the request ends with that error.
RetrieveFailed(r, exc) == [r EXCEPT !.pc = "done", !.result = exc]

\* Mutant of FillProps: Type, TSS and IF are written back whenever they
\* have a value, changed or not.
FillPropsUnconditional(workout, updated) ==
    [n \in {m \in {"Type", "TSS", "IF"} :
              CASE m = "Type" -> TRUE
                [] m = "TSS" -> updated.tss # None
                [] m = "IF" -> updated.intensity_factor # None} |->
       CASE n = "Type" -> updated.type
         [] n = "TSS" -> updated.tss
         [] n = "IF" -> updated.intensity_factor]

\* The properties fill_missing_metrics writes back: Type, TSS and IF where
\* the augmented workout differs from the parsed one.
FillProps(workout, updated) ==
    [n \in {m \in {"Type", "TSS", "IF"} :
              CASE m = "Type" -> workout.type # updated.type
                [] m = "TSS" -> workout.tss # updated.tss /\ updated.tss # None
                [] m = "IF" -> /\ workout.intensity_factor # updated.intensity_factor
                               /\ updated.intensity_factor # None} |->
       CASE n = "Type" -> updated.type
         [] n = "TSS" -> updated.tss
         [] n = "IF" -> updated.intensity_factor]

\* POST /workout-logs/{page_id}/fill, or SyncWorkoutMetricsUseCase called
\* with page_id: fill_missing_metrics up to the retrieve it awaits.
FillMissingMetrics(p) ==
    /\ req[p].pc = "idle"
    /\ Arrived(p)
    /\ calls < MaxCalls
    /\ calls' = calls + 1
    /\ \E id \in PageIds, b \in {"fill_route", "sync"} :
         req' = [req EXCEPT ![p] =
                   [IdleReq EXCEPT !.op = "fill_missing_metrics",
                                   !.pc = "fill_retrieve", !.page_id = id,
                                   !.boundary = b, !.store_calls = <<"retrieve">>]]
    /\ UNCHANGED <<provider, cache, nextResp, pages, nextPage, saveLog, raced, lastWrite>>

\* The retrieve ends: the call to Notion failed, Notion holds no such page,
\* or the page arrives.
RetrieveResponse(p) ==
    /\ req[p].pc = "fill_retrieve"
    /\ \E ans \in NotionAnswers :
         LET r == [req[p] EXCEPT !.lookup = ans]
             got == Retrieve(pages, r.page_id)
         IN  req' = [req EXCEPT ![p] =
                       IF ans # Ok THEN RetrieveFailed(r, ans)
                       ELSE IF got.result # Ok THEN RetrieveFailed(r, got.result)
                       ELSE Retrieved(r, got.page)]
    /\ UNCHANGED <<provider, cache, nextResp, calls, pages, nextPage, saveLog, raced, lastWrite>>

\* The record of a fill_missing_metrics call that returned the workout: the
\* page, the athlete profile it read and the properties it wrote back.
FillEntry(r) ==
    [kind |-> "fill", page_id |-> r.page_id, athlete |-> r.athlete, props |-> r.props]

\* Notion answers the athlete-profile query of fill_missing_metrics: the
\* workout is augmented; the update is sent when a property changed, else
\* the augmented workout is returned at once.
FillAthleteResponse(p) ==
    /\ req[p].pc = "fill_athlete"
    /\ \E ans \in NotionAnswers, athlete \in Profiles :
         LET updated == AugmentWithEstimates(req[p].workout, athlete.max_hr,
                                             athlete.resting_hr)
             props == FillProps(req[p].workout, updated)
             r == [req[p] EXCEPT !.athlete = athlete, !.updated = updated,
                                 !.props = props]
         IN  IF ans # Ok
             THEN /\ req' = [req EXCEPT ![p] =
                               [req[p] EXCEPT !.pc = "done", !.result = ans]]
                  /\ UNCHANGED saveLog
             ELSE IF DOMAIN props # {}
             THEN /\ req' = [req EXCEPT ![p] =
                               [r EXCEPT !.pc = "fill_update",
                                         !.store_calls = Append(@, "update")]]
                  /\ UNCHANGED saveLog
             ELSE /\ req' = [req EXCEPT ![p] =
                               [r EXCEPT !.pc = "done", !.result = Ok]]
                  /\ saveLog' = Append(saveLog, FillEntry(r))
    /\ UNCHANGED <<provider, cache, nextResp, calls, pages, nextPage, raced, lastWrite>>

\* Notion applies the PATCH of fill_missing_metrics.
FillUpdateResponse(p) ==
    /\ req[p].pc = "fill_update"
    /\ \E ans \in NotionAnswers :
         LET r == req[p] IN
         IF ans = Ok
         THEN /\ pages' = {IF pg.id = r.page_id THEN UpdatePage(pg, r.props) ELSE pg :
                              pg \in pages}
              /\ req' = [req EXCEPT ![p] = [r EXCEPT !.pc = "done", !.result = Ok]]
              /\ saveLog' = Append(saveLog, FillEntry(r))
         ELSE /\ req' = [req EXCEPT ![p] = [r EXCEPT !.pc = "done", !.result = ans]]
              /\ UNCHANGED <<pages, saveLog>>
    /\ UNCHANGED <<provider, cache, nextResp, calls, nextPage, raced, lastWrite>>

----------------------------------------------------------------------------
(* The summary-advice fan-out: GetSummaryAdviceUseCase.__call__            *)
(* (application/advice.py) and get_summary_advice (routes/advice.py)       *)

\* The four coroutines handed to asyncio.gather.
AdviceTasks == {"nutrition", "metrics", "workouts", "athlete"}

\* The exception a task ends with when its upstream read fails.
TaskError(t) == Exc("UpstreamError", t)

\* The tasks of a request that have ended, each with how it ended, in the
\* order of their ends; the others are running.
EndedTasks(r) == {r.ended[i].task : i \in 1..Len(r.ended)}
RunningTasks(r) == IF r.op = "summary_advice" THEN AdviceTasks \ EndedTasks(r) ELSE {}

\* The request is started: gather wraps the four coroutines in tasks and
\* the caller awaits them.
GetSummaryAdvice(p) ==
    /\ req[p].pc = "idle"
    /\ Arrived(p)
    /\ req' = [req EXCEPT ![p] =
                 [IdleReq EXCEPT !.op = "summary_advice", !.pc = "gather"]]
    /\ UNCHANGED <<provider, cache, nextResp, calls, pages, nextPage, saveLog, raced, lastWrite>>

\* Mutant of OnFirstFailure: the tasks still running are cancelled.
OnFirstFailureCancelling(r, t) ==
    [r EXCEPT !.pc = "done", !.result = TaskError(t),
              !.ended = @ \o
                  [i \in 1..Cardinality(RunningTasks(r)) |->
                     [task |-> (CHOOSE s \in Orderings(RunningTasks(r)) : TRUE)[i],
                      outcome |-> "cancelled"]]]

\* asyncio.gather without return_exceptions, a task raised while the caller
\* awaits: the exception is propagated to the caller at once, the other
\* tasks are left as they are.
OnFirstFailure(r, t) == [r EXCEPT !.pc = "done", !.result = TaskError(t)]

\* A running task ends, with its result or with an exception. While the
\* caller awaits the gather, the first exception ends the await and the
\* fourth result lets the response be built; after that the end of a task
\* changes nothing for the caller.
TaskEnds(p) ==
    /\ \E t \in RunningTasks(req[p]), outcome \in {"ok", "failed"} :
         LET r == [req[p] EXCEPT !.ended = Append(@, [task |-> t, outcome |-> outcome])]
         IN  req' = [req EXCEPT ![p] =
                       IF req[p].pc # "gather" THEN r
                       ELSE IF outcome = "failed" THEN OnFirstFailure(r, t)
                       ELSE IF RunningTasks(r) = {}
                       THEN [r EXCEPT !.pc = "done", !.result = Ok]
                       ELSE r]
    /\ UNCHANGED <<provider, cache, nextResp, calls, pages, nextPage, saveLog, raced, lastWrite>>

----------------------------------------------------------------------------
(* Specifications                                                          *)

\* Two requests of one provider fetch concurrently against the shared cache.
InitFetch ==
    /\ provider \in Providers
    /\ cache \in SeedCaches
    /\ InitCommon

NextFetch ==
    \/ \E p \in Procs : GetActivity(p)
    \/ \E p \in Procs : FetchMeasurements(p)
    \/ \E p \in Procs : TokenResponse(p)
    \/ \E p \in Procs : FirstGetResponse(p)
    \/ \E p \in Procs : RetryGetResponse(p)
    \/ \E prov \in Providers : Expire(AccessKey(prov))

SpecFetch == InitFetch /\ [][NextFetch]_vars

\* Two request slots call save_workout, one call after another or overlapping.
InitStore ==
    /\ provider = "strava"
    /\ cache = [key \in Keys |-> NoKey]
    /\ InitCommon

NextStore ==
    \/ \E p \in Procs : SaveWorkout(p)
    \/ \E p \in Procs : SaveAthleteResponse(p)
    \/ \E p \in Procs : ExistsQueryResponse(p)
    \/ \E p \in Procs : UpdateResponse(p)
    \/ \E p \in Procs : CreateResponse(p)
    \/ \E p \in Procs : Return(p)

SpecStore == InitStore /\ [][NextStore]_vars

\* One request slot calls save_workout, with each of TSS and IF passed or
\* left None.
InitSave == InitStore

NextSave ==
    \/ \E p \in {"r1"} : SaveWorkoutWith(p, OptionalMetrics)
    \/ \E p \in {"r1"} : SaveAthleteResponse(p)
    \/ \E p \in {"r1"} : ExistsQueryResponse(p)
    \/ \E p \in {"r1"} : UpdateResponse(p)
    \/ \E p \in {"r1"} : CreateResponse(p)
    \/ \E p \in {"r1"} : Return(p)

SpecSave == InitSave /\ [][NextSave]_vars

\* One request slot runs process_activity from the fetch to the store.
InitPipeline ==
    /\ provider = "strava"
    /\ cache \in SeedCaches
    /\ InitCommon

NextPipeline ==
    \/ \E p \in {"r1"} : ProcessActivity(p)
    \/ \E p \in {"r1"} : TokenResponse(p)
    \/ \E p \in {"r1"} : FirstGetResponse(p)
    \/ \E p \in {"r1"} : RetryGetResponse(p)
    \/ \E p \in {"r1"} : AthleteResponse(p)
    \/ \E p \in {"r1"} : SaveAthleteResponse(p)
    \/ \E p \in {"r1"} : ExistsQueryResponse(p)
    \/ \E p \in {"r1"} : UpdateResponse(p)
    \/ \E p \in {"r1"} : CreateResponse(p)
    \/ \E p \in {"r1"} : Return(p)
    \/ Expire(AccessKey("strava"))

SpecPipeline == InitPipeline /\ [][NextPipeline]_vars

\* One request slot serves webhook deliveries and manual triggers.
InitBoundary ==
    /\ provider = "strava"
    /\ cache \in SeedCaches
    /\ InitCommon

NextBoundary ==
    \/ \E p \in {"r1"} : StravaEvent(p)
    \/ \E p \in {"r1"} : TriggerStravaProcessing(p)
    \/ \E p \in {"r1"} : TokenResponse(p)
    \/ \E p \in {"r1"} : FirstGetResponse(p)
    \/ \E p \in {"r1"} : RetryGetResponse(p)
    \/ \E p \in {"r1"} : AthleteResponse(p)
    \/ \E p \in {"r1"} : SaveAthleteResponse(p)
    \/ \E p \in {"r1"} : ExistsQueryResponse(p)
    \/ \E p \in {"r1"} : UpdateResponse(p)
    \/ \E p \in {"r1"} : CreateResponse(p)
    \/ \E p \in {"r1"} : Return(p)
    \/ Expire(AccessKey("strava"))

SpecBoundary == InitBoundary /\ [][NextBoundary]_vars

\* One request slot serves webhook deliveries; no token expires meanwhile.
InitWebhook ==
    /\ provider = "strava"
    /\ cache \in SeedCaches
    /\ InitCommon

NextWebhook ==
    \/ \E p \in {"r1"} : StravaEvent(p)
    \/ \E p \in {"r1"} : TokenResponse(p)
    \/ \E p \in {"r1"} : FirstGetResponse(p)
    \/ \E p \in {"r1"} : RetryGetResponse(p)
    \/ \E p \in {"r1"} : AthleteResponse(p)
    \/ \E p \in {"r1"} : SaveAthleteResponse(p)
    \/ \E p \in {"r1"} : ExistsQueryResponse(p)
    \/ \E p \in {"r1"} : UpdateResponse(p)
    \/ \E p \in {"r1"} : CreateResponse(p)
    \/ \E p \in {"r1"} : Return(p)

SpecWebhook == InitWebhook /\ [][NextWebhook]_vars

\* One request slot lists the recent workouts and fills missing metrics
\* over a database that holds some of StoredPages.
InitWorkouts ==
    /\ provider = "strava"
    /\ cache = [key \in Keys |-> NoKey]
    /\ nextResp = 1
    /\ calls = 0
    /\ req = [p \in Procs |-> IdleReq]
    /\ pages \in {S \in SUBSET StoredPages : Cardinality(S) <= MaxPages}
    /\ nextPage = 7
    /\ saveLog = <<>>
    /\ raced = {}
    /\ lastWrite = [resp |-> 0, hasRefresh |-> TRUE]

NextWorkouts ==
    \/ \E p \in {"r1"} : ListRecentWorkouts(p)
    \/ \E p \in {"r1"} : ListQueryResponse(p)
    \/ \E p \in {"r1"} : ListAthleteResponse(p)
    \/ \E p \in {"r1"} : FillMissingMetrics(p)
    \/ \E p \in {"r1"} : RetrieveResponse(p)
    \/ \E p \in {"r1"} : FillAthleteResponse(p)
    \/ \E p \in {"r1"} : FillUpdateResponse(p)
    \/ \E p \in {"r1"} : Return(p)

SpecWorkouts == InitWorkouts /\ [][NextWorkouts]_vars

\* Two request slots serve summary-advice requests.
InitAdvice ==
    /\ provider = "strava"
    /\ cache = [key \in Keys |-> NoKey]
    /\ InitCommon

NextAdvice ==
    \/ \E p \in Procs : GetSummaryAdvice(p)
    \/ \E p \in Procs : TaskEnds(p)

SpecAdvice == InitAdvice /\ [][NextAdvice]_vars

\* One request slot calls estimate_if_tss_from_hr.
InitEstimate ==
    /\ provider = "strava"
    /\ cache = [key \in Keys |-> NoKey]
    /\ InitCommon

NextEstimate ==
    \/ \E p \in {"r1"} : EstimateIfTss(p)
    \/ \E p \in {"r1"} : Return(p)

SpecEstimate == InitEstimate /\ [][NextEstimate]_vars

\* One request slot calls hr_drift_from_splits.
InitDrift ==
    /\ provider = "strava"
    /\ cache = [key \in Keys |-> NoKey]
    /\ InitCommon

NextDrift ==
    \/ \E p \in {"r1"} : HrDrift(p)
    \/ \E p \in {"r1"} : Return(p)

SpecDrift == InitDrift /\ [][NextDrift]_vars

\* One request slot calls add_moving_average.
InitAverage ==
    /\ provider = "strava"
    /\ cache = [key \in Keys |-> NoKey]
    /\ InitCommon

NextAverage ==
    \/ \E p \in {"r1"} : MovingAverage(p)
    \/ \E p \in {"r1"} : Return(p)

SpecAverage == InitAverage /\ [][NextAverage]_vars

\* One request slot calls vo2max_minutes.
InitVo2 ==
    /\ provider = "strava"
    /\ cache = [key \in Keys |-> NoKey]
    /\ InitCommon

NextVo2 ==
    \/ \E p \in {"r1"} : Vo2max(p)
    \/ \E p \in {"r1"} : Return(p)

SpecVo2 == InitVo2 /\ [][NextVo2]_vars

\* One request slot calls compute_activity_metrics.
InitMetrics ==
    /\ provider = "strava"
    /\ cache = [key \in Keys |-> NoKey]
    /\ InitCommon

NextMetrics ==
    \/ \E p \in {"r1"} : ComputeMetrics(p)
    \/ \E p \in {"r1"} : Return(p)

SpecMetrics == InitMetrics /\ [][NextMetrics]_vars

----------------------------------------------------------------------------
(* Properties                                                              *)

PagesWithId(id) == {pg \in pages : pg.props["Id"] = id}

\* The store writes for one external id, in the order Notion applied them.
SavesOf(id) == SelectSeq(saveLog, LAMBDA e : e.id = id)

\* The refresh calls of a request that get_token ("get_token") or a 401
\* answer ("401") triggered.
Triggered(r, t) == SelectSeq(r.refreshes, LAMBDA e : e.trigger = t)

\* C1: save_workout calls for one external id that do not overlap, on a store
\* that starts empty, leave exactly one record with that id: the first write
\* is a create, every later one an update of the page the first created.
SequentialSavesUpsert ==
    \A id \in ActivityIds :
        id \notin raced =>
            LET E == SavesOf(id)
            IN  /\ Cardinality(PagesWithId(id)) = (IF E = <<>> THEN 0 ELSE 1)
                /\ \A i \in 1..Len(E) :
                      IF i = 1 THEN E[i].kind = "create"
                      ELSE E[i].kind = "update" /\ E[i].page_id = E[1].page_id

\* C1 witness: two calls for one id ran one after the other, a create then an
\* update, and one record is stored.
SequentialCreateThenUpdate ==
    \E id \in ActivityIds :
        /\ id \notin raced
        /\ Len(SavesOf(id)) = 2
        /\ SavesOf(id)[2].kind = "update"
        /\ Cardinality(PagesWithId(id)) = 1

\* C2 (as claimed): in every reachable state, whatever the interleaving of
\* save_workout calls, the store holds at most one record per external id.
AtMostOneRecordPerId ==
    \A id \in ActivityIds : Cardinality(PagesWithId(id)) <= 1

\* C3: two records for one external id arise exactly the way the race is
\* described: the calls overlapped, and the call that created the second
\* record had its existence query answered (with no result) before the first
\* create was applied.
DuplicatesOnlyFromOverlappingQueries ==
    \A i, j \in 1..Len(saveLog) :
        (/\ i < j
         /\ saveLog[i].kind = "create" /\ saveLog[j].kind = "create"
         /\ saveLog[i].id = saveLog[j].id)
        => /\ saveLog[j].queried_at < i
           /\ saveLog[i].id \in raced

\* C3 witness: two records with one external id are stored.
DuplicateRecordReached ==
    \E id \in ActivityIds : Cardinality(PagesWithId(id)) >= 2

\* C4 (as claimed): in a finished fetch whose first GET was answered 401,
\* refresh was called once for it and exactly one retry GET followed,
\* carrying the token that refresh returned.
UnauthorizedAlwaysRetried ==
    \A p \in Procs :
        LET r == req[p] IN
        (r.pc = "done" /\ Len(r.gets) >= 1 /\ r.gets[1].status = 401)
        => /\ Len(Triggered(r, "401")) = 1
           /\ Len(r.gets) = 2
           /\ r.gets[2].token = Triggered(r, "401")[1].token

\* C4 (amended): a 401 answer to the first GET, and nothing else, triggers
\* exactly one call of refresh; a retry GET is issued exactly when that
\* refresh returned a token, and carries it; when that refresh fails the
\* fetch ends with its error and no retry; no fetch issues more than two GETs.
RefreshOnceRetryOnce ==
    \A p \in Procs :
        LET r == req[p]
            R == Triggered(r, "401")
        IN  /\ Len(r.gets) <= 2
            /\ Len(R) <= 1
            /\ (Len(R) = 1) <=> (Len(r.gets) >= 1 /\ r.gets[1].status = 401)
            /\ (Len(r.gets) = 2) <=> (Len(R) = 1 /\ R[1].exc = Ok)
            /\ Len(r.gets) = 2 => r.gets[2].token = R[1].token
            /\ (Len(R) = 1 /\ R[1].exc \notin {Ok, Pending})
               => r.pc = "done" /\ r.fetch = R[1].exc

\* C4 witness: a fetch got 401, refreshed, retried with the new token and
\* succeeded.
RetriedWithRefreshedToken ==
    \E p \in Procs :
        LET r == req[p] IN
        /\ r.pc = "done" /\ r.fetch = Ok
        /\ Len(r.gets) = 2 /\ r.gets[1].status = 401
        /\ r.gets[2].token = Triggered(r, "401")[1].token
        /\ r.gets[2].token # r.gets[1].token

\* C5 (as claimed): when the retry GET of process_activity's fetch is also
\* answered 401, the fetch fails like a failed refresh, with StravaAuthError,
\* and process_activity reports the auth boundary error (500 "Auth failure").
SecondUnauthorizedIsAuthFailure ==
    \A p \in Procs :
        LET r == req[p] IN
        (/\ r.op = "process_activity" /\ r.pc = "done"
         /\ Len(r.gets) = 2 /\ r.gets[2].status = 401)
        => /\ r.fetch.type = "StravaAuthError"
           /\ r.result = Exc("HTTPException", "500 Auth failure")

\* C6: get_token uses the cached access token when the key holds one, without
\* calling refresh (so without a token request or a cache write); when the
\* key is absent it calls refresh exactly once and the first GET carries the
\* token that refresh returned (no GET at all when it failed).
GetTokenUsesCacheOrRefreshesOnce ==
    \A p \in Procs :
        LET r == req[p]
            G == Triggered(r, "get_token")
        IN  r.prov # "none" =>
              IF r.cached # None
              THEN /\ G = <<>>
                   /\ Len(r.gets) >= 1
                   /\ r.gets[1].token = r.cached
              ELSE /\ Len(G) = 1
                   /\ G[1].exc = Ok <=> Len(r.gets) >= 1
                   /\ Len(r.gets) >= 1 => r.gets[1].token = G[1].token
                   /\ G[1].exc \notin {Ok, Pending}
                      => r.pc = "done" /\ r.fetch = G[1].exc

\* C6 witness: a fetch that found a cached token finished without any
\* refresh.
CachedTokenUsed ==
    \E p \in Procs :
        LET r == req[p] IN
        /\ r.pc = "done" /\ r.fetch = Ok
        /\ r.cached # None
        /\ r.refreshes = <<>>
        /\ r.gets[1].token = r.cached

\* C7: a refresh called while the cache holds no refresh token raises the
\* missing-refresh-token error without sending a token request and without
\* any redis.set.
RefreshWithoutStoredTokenFailsEarly ==
    \A p \in Procs :
        \A i \in 1..Len(req[p].refreshes) :
            LET e == req[p].refreshes[i] IN
            e.refresh_token = None
            => /\ e.posts = 0
               /\ e.writes = <<>>
               /\ e.exc.type = (IF req[p].prov = "strava"
                                THEN "StravaAuthError" ELSE "ValueError")
               /\ req[p].pc = "done"
               /\ req[p].fetch = e.exc

\* C7 witness: a refresh was called with no stored refresh token.
RefreshCalledWithoutStoredToken ==
    \E p \in Procs :
        \E i \in 1..Len(req[p].refreshes) :
            /\ req[p].refreshes[i].refresh_token = None
            /\ req[p].refreshes[i].posts = 0

\* C8: nothing but the GET after a 401 is issued again: a refresh call sends
\* at most one token request, a first GET that ends in a transport error or
\* a non-401 error status ends the fetch after that one GET with no refresh
\* triggered by it, and the retry GET ends the fetch whatever its answer.
NoRetryBeyondUnauthorized ==
    \A p \in Procs :
        LET r == req[p] IN
        /\ \A i \in 1..Len(r.refreshes) : r.refreshes[i].posts <= 1
        /\ Len(Triggered(r, "get_token")) <= 1
        /\ Len(Triggered(r, "401")) <= 1
        /\ (Len(r.gets) >= 1 /\ r.gets[1].status \notin {0, 200, 401})
           => /\ Len(r.gets) = 1
              /\ Triggered(r, "401") = <<>>
              /\ r.pc = "done"
              /\ r.fetch \notin {Ok, Pending}
        /\ (Len(r.gets) = 2 /\ r.gets[2].status \notin {0, 200})
           => /\ r.pc = "done"
              /\ r.fetch \notin {Ok, Pending}

\* C8 witness: a fetch ended after a single GET answered with a non-401
\* error status.
FailedGetEndsFetch ==
    \E p \in Procs :
        /\ req[p].pc = "done"
        /\ Len(req[p].gets) = 1
        /\ req[p].gets[1].status = 404

\* C9 (as claimed): after a successful refresh whose response reports expiry
\* E, the access token is stored with TTL E - 30 and the refresh-token key
\* with TTL 365*24*60*60; with no expiry reported the access token is stored
\* without TTL.
StoredTtlsAsClaimed ==
    \A p \in Procs :
        \A i \in 1..Len(req[p].refreshes) :
            LET e == req[p].refreshes[i] IN
            e.exc = Ok =>
              IF e.expires_in # None
              THEN /\ e.writes[1].ex = Num(e.expires_in[1] - 30)
                   /\ \E k \in 1..Len(e.writes) :
                         /\ e.writes[k].key = RefreshKey(req[p].prov)
                         /\ e.writes[k].ex = Num(31536000)
              ELSE e.writes[1].ex = None

\* C9 (amended): a successful refresh stores the access token with TTL
\* E - 30 when the response reports a non-zero expiry E and without TTL when
\* it reports none (absent or 0); it stores the refresh token, with TTL
\* 365*24*60*60, only when the response carries one, and otherwise does not
\* write the refresh-token key.
StoredTtls ==
    \A p \in Procs :
        \A i \in 1..Len(req[p].refreshes) :
            LET e == req[p].refreshes[i] IN
            e.exc = Ok =>
              /\ Len(e.writes) = (IF e.hasRefresh THEN 2 ELSE 1)
              /\ e.writes[1].key = AccessKey(req[p].prov)
              /\ e.writes[1].value = e.token
              /\ e.writes[1].ex = (IF e.expires_in \notin {None, Num(0)}
                                   THEN Num(e.expires_in[1] - 30) ELSE None)
              /\ e.hasRefresh =>
                    /\ e.writes[2].key = RefreshKey(req[p].prov)
                    /\ e.writes[2].ex = Num(31536000)

\* C9 witness: a refresh succeeded on a response with expiry 3600 and a
\* refresh token.
RefreshStoredBothTokens ==
    \E p \in Procs :
        \E i \in 1..Len(req[p].refreshes) :
            /\ req[p].refreshes[i].exc = Ok
            /\ req[p].refreshes[i].expires_in = Num(3600)
            /\ req[p].refreshes[i].hasRefresh

\* C10 (as claimed): in every reachable state the cached access token and the
\* cached refresh token of a provider come from one and the same token
\* response.
CachedPairFromOneResponse ==
    \A prov \in Providers :
        LET a == RedisGet(cache, AccessKey(prov))
            f == RedisGet(cache, RefreshKey(prov))
        IN  (a # None /\ f # None) => a[2] = f[2]

\* C10 (amended): a cached access token is always the one of the response
\* written last; the cached refresh token is the one of that same response
\* whenever that response carried a refresh token, so the two differ in
\* origin only when the last response carried none; and every refresh that
\* succeeds hands its own response's token to its request.
CacheHoldsLastWriter ==
    LET a == RedisGet(cache, AccessKey(provider))
        f == RedisGet(cache, RefreshKey(provider))
    IN  /\ a # None => a = AccessTokenOf(lastWrite.resp)
        /\ (lastWrite.resp > 0 /\ lastWrite.hasRefresh)
           => f = RefreshTokenOf(lastWrite.resp)
        /\ (a # None /\ f # None /\ a[2] # f[2]) => ~lastWrite.hasRefresh
        /\ \A p \in Procs :
              \A i \in 1..Len(req[p].refreshes) :
                 LET e == req[p].refreshes[i] IN
                 e.exc = Ok =>
                    /\ e.token # None
                    /\ e.writes[1].value = e.token
                    /\ \E k \in 1..Len(req[p].gets) : req[p].gets[k].token = e.token

\* C10 witness: two requests refreshed at the same time, both succeeded, and
\* the cache holds the pair of the response that was written last.
ConcurrentRefreshesBothWritten ==
    /\ \E i \in 1..Len(req["r1"].refreshes) :
          req["r1"].refreshes[i].token = AccessTokenOf(2)
    /\ \E i \in 1..Len(req["r2"].refreshes) :
          req["r2"].refreshes[i].token = AccessTokenOf(1)
    /\ RedisGet(cache, AccessKey(provider)) = AccessTokenOf(2)
    /\ RedisGet(cache, RefreshKey(provider)) = RefreshTokenOf(2)

\* The refresh calls of all requests that have ended.
EndedRefreshes ==
    UNION {{[prov |-> req[p].prov, e |-> req[p].refreshes[i]] :
               i \in {j \in 1..Len(req[p].refreshes) :
                         req[p].refreshes[j].exc # Pending}} : p \in Procs}

RefreshFailureModes == {"no_refresh_token", "http_status", "no_access_token"}

\* C11 (as claimed): a missing refresh token, a non-success status of the
\* token endpoint and a success response without access token end refresh in
\* three different kinds of error: two refresh calls that failed in different
\* ones of these modes raised errors of different types.
RefreshFailuresDifferInKind ==
    \A x, y \in EndedRefreshes :
        (/\ x.e.mode \in RefreshFailureModes
         /\ y.e.mode \in RefreshFailureModes
         /\ x.e.mode # y.e.mode)
        => x.e.exc.type # y.e.exc.type

\* C11 (amended): each of the three failure modes ends refresh in an error of
\* its own, told apart by its message and not by its type: Strava raises
\* StravaAuthError in all three, Withings ValueError for the missing refresh
\* token and RuntimeError for the other two.
RefreshFailuresDifferInMessage ==
    /\ \A x \in EndedRefreshes :
          x.e.mode \in RefreshFailureModes =>
            /\ x.e.token = None
            /\ x.e.exc.type =
                 (IF x.prov = "strava" THEN "StravaAuthError"
                  ELSE IF x.e.mode = "no_refresh_token" THEN "ValueError"
                  ELSE "RuntimeError")
    /\ \A x, y \in EndedRefreshes :
          (/\ x.e.mode \in RefreshFailureModes
           /\ y.e.mode \in RefreshFailureModes)
          => (x.e.mode = y.e.mode <=> x.e.exc.msg = y.e.exc.msg)

\* C11 witness: two refresh calls failed, one on the token endpoint's status
\* and one on a response without access token.
TwoRefreshFailureModes ==
    \E x, y \in EndedRefreshes :
        /\ x.e.mode = "http_status"
        /\ y.e.mode = "no_access_token"

\* C12 (as claimed): process_activity is never called for a webhook POST
\* whose signature is missing or invalid.
UnsignedEventNeverProcessed ==
    \A p \in Procs :
        (req[p].boundary = "webhook" /\ req[p].op = "process_activity")
        => req[p].signature = "valid"

IsPrefix(s, t) == Len(s) <= Len(t) /\ \A i \in 1..Len(s) : s[i] = t[i]

\* The store calls of one process_activity, in order: the athlete profile
\* for the metrics, save_workout's own profile read when IF or TSS is still
\* missing, the existence query, then the update or the create.
StoreCallOrders ==
    {<<"athlete_profile">> \o mid \o <<"query_by_id", last>> :
        mid \in {<<>>, <<"athlete_profile">>}, last \in {"update", "create"}}

\* C13: process_activity issues its store calls only after the fetch has
\* returned the activity, in the order athlete profile, (metrics,) existence
\* query, create or update; a request whose fetch has not succeeded has
\* issued no store call and has written nothing to the store.
ProcessActivityInOrder ==
    \A p \in Procs :
        LET r == req[p] IN
        r.op = "process_activity" =>
            /\ r.fetch # Ok => /\ r.store_calls = <<>>
                               /\ r.attachment = None
                               /\ r.pc \notin {"athlete", "save_athlete", "save_query",
                                                "save_update", "save_create"}
            /\ \E o \in StoreCallOrders : IsPrefix(r.store_calls, o)
            /\ r.attachment # None => Len(r.store_calls) >= 2
            /\ (r.pc = "done" /\ r.result = Ok) => r.store_calls \in StoreCallOrders

\* C13 witness: a process_activity ran through to the create.
ProcessActivityPersisted ==
    \E p \in Procs :
        /\ req[p].op = "process_activity"
        /\ req[p].pc = "done" /\ req[p].result = Ok
        /\ req[p].store_calls[Len(req[p].store_calls)] = "create"

\* C14 (as claimed): an auth failure of the activity fetch is answered with
\* a 5xx status at the webhook and at the manual trigger alike.
AuthFailureIsServerError ==
    \A p \in Procs :
        LET r == req[p] IN
        (/\ r.op = "process_activity" /\ r.pc = "done"
         /\ r.boundary \in {"webhook", "manual"}
         /\ r.fetch.type = "StravaAuthError")
        => ResponseStatus(r) >= 500

\* C15 (as claimed): after a successful process_activity the stored record
\* carries the attachment persist_activity computed, and its notes are the
\* activity's description.
PersistedRecordCarriesAttachment ==
    \A p \in Procs :
        LET r == req[p] IN
        (r.op = "process_activity" /\ r.pc = "done" /\ r.result = Ok)
        => \E pg \in pages :
              /\ pg.props["Id"] = r.detail.id
              /\ "Attachment" \in DOMAIN pg.props
              /\ pg.props["Attachment"] = r.attachment
              /\ Truthy(r.detail.description) =>
                    /\ "Notes" \in DOMAIN pg.props
                    /\ pg.props["Notes"] = r.detail.description[1]

\* A step in which process_activity of p fails after its fetch succeeded.
FailsAfterFetch(p) ==
    /\ req[p].op = "process_activity"
    /\ req[p].fetch = Ok
    /\ req[p].pc # "done"
    /\ req'[p].pc = "done"
    /\ req'[p].result # Ok

\* C16: when a step after the successful fetch fails, process_activity ends
\* with that error and undoes nothing: the failing step leaves the token
\* cache and the store as they were, and the tokens the last refresh of this
\* fetch wrote are still cached when the request has failed (the access
\* token until its TTL runs out).
FailureAfterFetchUndoesNothing ==
    /\ [][\A p \in Procs :
            FailsAfterFetch(p) =>
               /\ cache' = cache
               /\ pages' = pages
               /\ saveLog' = saveLog
               /\ req'[p].result.type = "HTTPException"]_vars
    /\ [](\A p \in Procs :
            LET r == req[p] IN
            (/\ r.op = "process_activity" /\ r.fetch = Ok
             /\ r.pc = "done" /\ r.result # Ok)
            => \A i \in 1..Len(r.refreshes) :
                  i = Len(r.refreshes) =>
                     /\ r.refreshes[i].exc = Ok
                     /\ RedisGet(cache, AccessKey("strava"))
                           \in {r.refreshes[i].token, None}
                     /\ r.refreshes[i].hasRefresh =>
                           RedisGet(cache, RefreshKey("strava"))
                              = RefreshTokenOf(r.refreshes[i].token[2]))

\* C16 witness: process_activity failed at a store call after a fetch that
\* had refreshed the tokens, and the refreshed pair is cached.
FailedAfterRefreshedFetch ==
    \E p \in Procs :
        LET r == req[p] IN
        /\ r.op = "process_activity" /\ r.fetch = Ok
        /\ r.pc = "done" /\ r.result # Ok
        /\ Len(r.refreshes) = 1 /\ r.refreshes[1].exc = Ok
        /\ r.refreshes[1].hasRefresh
        /\ RedisGet(cache, AccessKey("strava")) = r.refreshes[1].token
        /\ Len(r.store_calls) >= 3

\* The ids of the StoredPages whose stored fields do not parse.
UnparsableIds == {3, 4}

Parsable(id) == id \notin UnparsableIds

\* The page ids of a sequence of pages or of workouts.
IdsOf(s) == [i \in 1..Len(s) |-> s[i].id]
PageIdsOf(s) == [i \in 1..Len(s) |-> s[i].page_id]

\* C17: list_recent_workouts fails only when one of its two calls to Notion
\* fails, never because of a record: whatever pages the query returned, the
\* workouts returned are those of the pages whose stored fields parse, one
\* for each, in the order of the query; the pages that do not parse are
\* left out and nothing else is.
ListReturnsParsablePages ==
    \A p \in Procs :
        LET r == req[p] IN
        (r.op = "list_recent_workouts" /\ r.pc = "done") =>
            /\ r.result \in NotionAnswers
            /\ (r.result # Ok) => (r.workouts = <<>>)
            /\ (r.result = Ok) =>
                 PageIdsOf(r.workouts) = SelectSeq(IdsOf(r.query_result), Parsable)

\* C17 witness: a list call returned the workouts before and after a page
\* that does not parse.
UnparsablePageSkipped ==
    \E p \in Procs :
        LET r == req[p] IN
        /\ r.op = "list_recent_workouts" /\ r.pc = "done" /\ r.result = Ok
        /\ Len(r.query_result) = 3
        /\ ~Parsable(r.query_result[2].id)
        /\ Len(r.workouts) = 2

\* The store holds a page of that id.
Known(page_id) == \E pg \in pages : pg.id = page_id

IssuedUpdate(r) == \E i \in 1..Len(r.store_calls) : r.store_calls[i] = "update"

FailedAt(r) == {i \in 1..Len(r.ended) : r.ended[i].outcome = "failed"}
FirstFailed(r) == r.ended[CHOOSE i \in FailedAt(r) : \A j \in FailedAt(r) : i <= j].task

\* What the caller of the fan-out gets: the error of the first task that
\* failed, and a response only when all four tasks succeeded.
CallerGetsFirstFailure(r) ==
    /\ (r.pc = "done" /\ r.result # Ok) =>
         FailedAt(r) # {} /\ r.result = TaskError(FirstFailed(r))
    /\ (r.pc = "done" /\ r.result = Ok) =>
         /\ EndedTasks(r) = AdviceTasks
         /\ FailedAt(r) = {}
    /\ (r.pc = "gather") => FailedAt(r) = {}

\* C19 as claimed: the caller gets the error of the first task that fails,
\* never a response built from the tasks that succeeded, and once it has
\* the error no task of the fan-out is running any longer.
FirstFailureCancelsSiblings ==
    \A p \in Procs :
        LET r == req[p] IN
        r.op = "summary_advice" =>
            /\ CallerGetsFirstFailure(r)
            /\ (r.pc = "done" /\ r.result # Ok) => RunningTasks(r) = {}

\* C19: the caller gets the error of the first task that fails, never a
\* response built from the tasks that succeeded; no task is cancelled: a
\* task still running at the first failure runs on and ends with its own
\* result or exception, which nobody reads.
FirstFailurePropagatesSiblingsRunOn ==
    /\ [](\A p \in Procs :
            LET r == req[p] IN
            r.op = "summary_advice" =>
                /\ CallerGetsFirstFailure(r)
                /\ \A i \in 1..Len(r.ended) : r.ended[i].outcome \in {"ok", "failed"})
    /\ [][\A p \in Procs :
            (req[p].op = "summary_advice" /\ req[p].pc = "done") =>
                /\ req'[p].pc = "done"
                /\ req'[p].result = req[p].result]_vars

\* C19 witness: the caller has the error of the first task and one of the
\* other tasks has ended with its result after that.
SiblingEndedAfterFailure ==
    \E p \in Procs :
        LET r == req[p] IN
        /\ r.op = "summary_advice" /\ r.pc = "done" /\ r.result # Ok
        /\ Len(r.ended) >= 2
        /\ r.ended[1].outcome = "failed"
        /\ r.ended[2].outcome = "ok"

\* The properties save_workout fills from an optional entry of the detail,
\* each with that entry.
DetailField(n) ==
    CASE n = "Duration [s]" -> "elapsed_time"
      [] n = "Distance [m]" -> "distance"
      [] n = "Type" -> "type"
      [] n = "Average Heartrate" -> "average_heartrate"
      [] n = "Max Heartrate" -> "max_heartrate"
      [] n = "Notes" -> "description"

OptionalProps ==
    {"Duration [s]", "Distance [m]", "Type", "Average Heartrate", "Max Heartrate",
     "Notes"}

\* C20: when save_workout updates the record it found, every stored
\* property for which the incoming detail carries no value is the same
\* after the update as before.
UpdateKeepsUnsuppliedFields ==
    [][\A p \in Procs :
         (req[p].pc = "save_update" /\ req'[p].pc = "done" /\ req'[p].result = Ok) =>
            \A pg \in pages : \A pg2 \in pages' :
                (pg.id = req[p].page_id /\ pg2.id = pg.id) =>
                    \A n \in OptionalProps \cap DOMAIN pg.props :
                        (req[p].detail[DetailField(n)] = None) =>
                            pg2.props[n] = pg.props[n]]_vars

\* The stored value of Type, TSS or IF of a page, and the re-derived one.
StoredValue(pg, n) == IF n = "Type" THEN TypeValue(pg.props) ELSE PropOf(pg.props, n)
DerivedValue(updated, n) ==
    CASE n = "Type" -> updated.type
      [] n = "TSS" -> updated.tss
      [] n = "IF" -> updated.intensity_factor

\* The properties of a page whose re-derived value differs from the stored
\* one.
Differing(pg, updated) ==
    {n \in {"Type", "TSS", "IF"} : StoredValue(pg, n) # DerivedValue(updated, n)}

\* The fill entries of the log.
Fills == {i \in 1..Len(saveLog) : saveLog[i].kind = "fill"}

MissingOrNotPositive(v) == v = None \/ v[1] <= 0

\* C22: estimate_if_tss_from_hr returns None exactly when one of avg_hr,
\* max_hr_session, duration_s, max_hr_athlete is missing or not positive;
\* for every other input, whatever the resting heart rate, the intensity
\* factor it returns lies within [0.30, 1.35].
EstimateNoneIffInputMissing ==
    \A p \in Procs :
        LET r == req[p] IN
        (r.op = "estimate_if_tss_from_hr" /\ r.pc = "done") =>
            /\ (r.value = None) <=>
                 \/ MissingOrNotPositive(r.args.hr_avg_session)
                 \/ MissingOrNotPositive(r.args.hr_max_session)
                 \/ MissingOrNotPositive(r.args.dur_s)
                 \/ MissingOrNotPositive(r.args.hr_max_athlete)
            /\ (r.value # None) =>
                 /\ r.value[1][2] = 100
                 /\ r.value[1][1] >= 30
                 /\ r.value[1][1] <= 135

\* C22 witness: an estimate at the upper end of the range, for an athlete
\* without a usable resting heart rate.
EstimateClampedAtMaximum ==
    \E p \in Procs :
        LET r == req[p] IN
        /\ r.op = "estimate_if_tss_from_hr" /\ r.pc = "done"
        /\ MissingOrNotPositive(r.args.hr_rest_athlete)
        /\ r.value # None
        /\ r.value[1] = Rat(135, 100)

\* Equality of two fractions.
RatEq(a, b) == a[1] * b[2] = b[1] * a[2]

\* The positions of a list of splits whose heart rate is a number > 0.
ValidHrAt(splits) ==
    {i \in 1..Len(splits) :
        /\ splits[i] # None
        /\ IsFloat(splits[i])
        /\ splits[i][1] > 0}

RECURSIVE HrSum(_, _)
HrSum(splits, I) ==
    IF I = {} THEN 0
    ELSE LET i == CHOOSE j \in I : TRUE IN splits[i][1] + HrSum(splits, I \ {i})

\* C23: hr_drift_from_splits over n splits compares the first floor(n/2)
\* of them with the others (with n odd the extra split is in the second
\* half): with A the valid heart rates (numbers > 0) of the first and B
\* those of the second half, it returns (avg B - avg A) / avg A * 100, and
\* 0.0 when the list is empty or A or B is.
DriftComparesHalves ==
    \A p \in Procs :
        LET r == req[p]
            splits == r.args
            A == {i \in ValidHrAt(splits) : 2 * i <= Len(splits)}
            B == ValidHrAt(splits) \ A
            sumA == HrSum(splits, A)
            sumB == HrSum(splits, B)
        IN  (r.op = "hr_drift_from_splits" /\ r.pc = "done") =>
                IF A = {} \/ B = {}
                THEN r.value = Num(0)
                ELSE RatEq(r.value,
                           Rat(100 * (sumB * Cardinality(A) - sumA * Cardinality(B)),
                               sumA * Cardinality(B)))

\* C23 witness: three splits, the third without a heart rate: the drift is
\* that of the second against the first.
OddSplitInSecondHalf ==
    \E p \in Procs :
        LET r == req[p] IN
        /\ r.op = "hr_drift_from_splits" /\ r.pc = "done"
        /\ r.args = <<Num(150), Num(160), None>>
        /\ RatEq(r.value, Rat(1000, 150))

\* The positions of the window of the k-th sample, and those of them where
\* a metric has a value.
WindowAt(k, window) == {i \in 1..k : i > k - window}
ValuedAt(out, k, window, metric) ==
    {i \in WindowAt(k, window) : out[i].values[metric] # None}

RECURSIVE ValueSum(_, _, _)
ValueSum(out, metric, I) ==
    IF I = {} THEN 0
    ELSE LET i == CHOOSE j \in I : TRUE
         IN  out[i].values[metric][1] + ValueSum(out, metric, I \ {i})

\* C24: add_moving_average returns the samples in time order, and the k-th
\* of them has a snapshot exactly when each of the 7 metrics has at least 3
\* values among the last `window` samples up to that one; one metric with
\* fewer leaves the snapshot null; a snapshot holds for each metric the mean
\* of its values in the window.
SnapshotIffAllMetricsQualify ==
    \A p \in Procs :
        LET r == req[p] IN
        (r.op = "add_moving_average" /\ r.pc = "done") =>
            LET out == r.value
                window == r.args.window
            IN  /\ Len(out) = Len(r.args.measurements)
                /\ \A k \in 1..Len(out) :
                     /\ out[k].measurement_time = k
                     /\ \E i \in 1..Len(out) :
                          /\ r.args.measurements[i].measurement_time = k
                          /\ r.args.measurements[i].values = out[k].values
                     /\ IF \A metric \in MetricNames :
                              Cardinality(ValuedAt(out, k, window, metric)) >= 3
                        THEN /\ DOMAIN out[k].moving_average_7d = MetricNames
                             /\ \A metric \in MetricNames :
                                  RatEq(out[k].moving_average_7d[metric],
                                        Rat(ValueSum(out, metric,
                                                     ValuedAt(out, k, window, metric)),
                                            Cardinality(ValuedAt(out, k, window, metric))))
                        ELSE DOMAIN out[k].moving_average_7d = {}

\* C24 witness: the last metric alone has two values only in the window of
\* the fourth sample, whose snapshot is null, while the third sample has
\* one.
OneMetricShortNoSnapshot ==
    \E p \in Procs :
        LET r == req[p] IN
        /\ r.op = "add_moving_average" /\ r.pc = "done"
        /\ r.args.window = 3
        /\ Len(r.value) = 4
        /\ DOMAIN r.value[3].moving_average_7d = MetricNames
        /\ DOMAIN r.value[4].moving_average_7d = {}
        /\ \A metric \in MetricNames \ {"body_fat_percent"} :
             Cardinality(ValuedAt(r.value, 4, 3, metric)) = 3
        /\ Cardinality(ValuedAt(r.value, 4, 3, "body_fat_percent")) = 2

\* A split with duration, average and peak heart rate all there and
\* positive.
CompleteSplit(split) ==
    /\ ~MissingOrNotPositive(split.moving_time)
    /\ ~MissingOrNotPositive(split.average_heartrate)
    /\ ~MissingOrNotPositive(split.max_heartrate)

\* C25: vo2max_minutes returns 0.0 for an empty list of splits and for a
\* max_hr that is missing, zero or negative; a split whose duration,
\* average or peak heart rate is missing or not positive adds nothing: the
\* result is the one over the list without those splits.
IncompleteSplitsAddNothing ==
    \A p \in Procs :
        LET r == req[p] IN
        (r.op = "vo2max_minutes" /\ r.pc = "done") =>
            /\ (r.args.splits = <<>> \/ MissingOrNotPositive(r.args.max_hr)) =>
                 r.value = Num(0)
            /\ r.value = Vo2maxMinutes(SelectSeq(r.args.splits, CompleteSplit),
                                       r.args.max_hr)

\* C25 witness: a call with one complete split between two incomplete ones
\* returned more than zero.
IncompleteSplitsSkipped ==
    \E p \in Procs :
        LET r == req[p] IN
        /\ r.op = "vo2max_minutes" /\ r.pc = "done"
        /\ Len(r.args.splits) = 3
        /\ ~CompleteSplit(r.args.splits[1])
        /\ CompleteSplit(r.args.splits[2])
        /\ ~CompleteSplit(r.args.splits[3])
        /\ r.value[1] > 0

\* A webhook delivery whose body parsed.
WellFormedDelivery(r) == r.boundary = "webhook" /\ r.event # "bad_json"

\* What a webhook delivery does with its event, the answer aside:
\* process_activity is called, once, with the event's object_id for an
\* activity create or update; for any other event nothing is called and the
\* handler answers ok at once.
EventDispatched(r) ==
    IF r.event \in {"activity.create", "activity.update"}
    THEN /\ r.op = "process_activity"
         /\ r.activity_id = r.object_id
         /\ r.fetch # Pending \/ r.pc # "done"
    ELSE /\ r.op = "strava_event"
         /\ r.pc = "done" /\ r.result = Ok
         /\ r.activity_id = 0 /\ r.gets = <<>> /\ r.refreshes = <<>>
         /\ r.store_calls = <<>>

Vo2FromLapsIffMoreThanTwo ==
    \A p \in Procs :
        LET r == req[p] IN
        (r.op = "compute_activity_metrics" /\ r.pc = "done") =>
            LET activity == r.args.activity
                max_hr == r.args.athlete.max_hr
                n == Len(activity.laps)
            IN  /\ r.value.hr_drift = HrDriftFromSplits(HeartRates(activity.splits_metric))
                /\ (max_hr = None) => r.value.vo2 = Num(0)
                /\ (max_hr # None /\ n > 2) =>
                     r.value.vo2 = Vo2maxMinutes(activity.laps, max_hr)
                /\ (max_hr # None /\ n <= 2) =>
                     r.value.vo2 = Vo2maxMinutes(activity.splits_metric, max_hr)

\* C27 witness: with two laps the VO2 minutes are those of the splits, which
\* differ from those of the laps.
TwoLapsUseSplits ==
    \E p \in Procs :
        LET r == req[p] IN
        /\ r.op = "compute_activity_metrics" /\ r.pc = "done"
        /\ Len(r.args.activity.laps) = 2
        /\ r.args.athlete.max_hr = Num(190)
        /\ r.value.vo2 = Vo2maxMinutes(r.args.activity.splits_metric, Num(190))
        /\ r.value.vo2 # Vo2maxMinutes(r.args.activity.laps, Num(190))
        /\ r.value.vo2 # Num(0)

\* The metric name of the properties save_workout sent holds what the caller
\* passed; where the caller passed None it holds element i of the HR estimate
\* of that call, and it is not sent when there was no estimate either.
SentMetric(r, name, caller, i) ==
    IF caller # None
    THEN name \in DOMAIN r.props /\ r.props[name] = caller
    ELSE IF r.estimate # None
    THEN name \in DOMAIN r.props /\ r.props[name] = r.estimate[i]
    ELSE name \notin DOMAIN r.props

\* The page a successful write of r leaves in the store.
WrittenPage(r, P, next) ==
    {pg \in P : pg.id = IF r.pc = "save_create" THEN next ELSE r.page_id}

\* C28: a TSS or IF handed to save_workout by its caller is the value the
\* write persists; the HR estimate stands in for a metric only where the
\* caller passed None for that metric, TSS and IF each decided on its own.
CallerMetricsPersisted ==
    [][\A p \in Procs :
         (/\ req[p].pc \in {"save_update", "save_create"}
          /\ req'[p].pc = "done"
          /\ req'[p].result = Ok)
         => /\ SentMetric(req[p], "TSS", req[p].caller_tss, 2)
            /\ SentMetric(req[p], "IF", req[p].caller_if, 1)
            /\ \E pg \in WrittenPage(req[p], pages', nextPage) :
                 \A name \in {"TSS", "IF"} \cap DOMAIN req[p].props :
                    pg.props[name] = req[p].props[name]]_vars

\* C28 witness: a call that was handed a TSS and no IF has persisted the
\* caller's TSS next to the estimated IF.
MixedMetricsPersisted ==
    \E p \in Procs :
       /\ req[p].op = "save_workout"
       /\ req[p].pc = "done"
       /\ req[p].result = Ok
       /\ req[p].caller_tss # None
       /\ req[p].caller_if = None
       /\ req[p].estimate # None
       /\ req[p].estimate[2] # req[p].caller_tss
       /\ \E pg \in pages :
            /\ pg.props["Id"] = req[p].detail.id
            /\ "IF" \in DOMAIN pg.props
            /\ pg.props["TSS"] = req[p].caller_tss
            /\ pg.props["IF"] = req[p].estimate[1]

\* Type, TSS or IF of a page holds a value: a number, or a type that is not
\* empty.
HasStored(pg, n) ==
    IF n = "Type" THEN TypeValue(pg.props) # "" ELSE PropOf(pg.props, n) # None

\* The workout returned for page pg keeps every stored Type, TSS and IF, and
\* an empty type reads "Gym".
KeepsStoredValues(pg, workout) ==
    /\ \A n \in {"Type", "TSS", "IF"} :
          HasStored(pg, n) => DerivedValue(workout, n) = StoredValue(pg, n)
    /\ ~HasStored(pg, "Type") => workout.type = "Gym"

\* C29: fill_missing_metrics and list_recent_workouts leave a stored TSS, a
\* stored IF and a non-empty stored type of every record as they are, in the
\* workout they return and, for the fill, in the update it sends and in the
\* record after it; they fill only the ones that are null or empty.
BackfillKeepsStoredValues ==
    /\ [](\A p \in Procs : \A pg \in pages :
            LET r == req[p] IN
            /\ (/\ r.op = "list_recent_workouts" /\ r.pc = "done" /\ r.result = Ok) =>
                  \A i \in DOMAIN r.workouts :
                     r.workouts[i].page_id = pg.id =>
                        KeepsStoredValues(pg, r.workouts[i])
            /\ (/\ r.op = "fill_missing_metrics" /\ r.pc = "fill_update"
                /\ pg.id = r.page_id) =>
                  /\ KeepsStoredValues(pg, r.updated)
                  /\ \A n \in DOMAIN r.props : ~HasStored(pg, n))
    /\ [][\A p \in Procs :
            (/\ req[p].op = "fill_missing_metrics"
             /\ req[p].pc \in {"fill_athlete", "fill_update"}
             /\ req'[p].pc = "done" /\ req'[p].result = Ok) =>
               \A pg \in pages : \A pg2 \in pages' :
                  (pg.id = req[p].page_id /\ pg2.id = pg.id) =>
                     /\ KeepsStoredValues(pg, req'[p].updated)
                     /\ \A n \in {"Type", "TSS", "IF"} :
                           HasStored(pg, n) =>
                              StoredValue(pg2, n) = StoredValue(pg, n)]_vars

\* C29 witness: a fill of a record that held a TSS and no IF has written the
\* estimated IF back and left the stored TSS and type in place.
FilledAroundStoredTss ==
    \E p \in Procs : \E pg \in pages :
       LET r == req[p] IN
       /\ r.op = "fill_missing_metrics" /\ r.pc = "done" /\ r.result = Ok
       /\ pg.id = r.page_id
       /\ r.workout.tss # None
       /\ r.workout.intensity_factor = None
       /\ DOMAIN r.props = {"IF"}
       /\ PropOf(pg.props, "IF") = r.props["IF"]
       /\ PropOf(pg.props, "TSS") = r.workout.tss
       /\ r.updated.tss = r.workout.tss

\* The ways a refresh fails.
FailedModes ==
    {"no_refresh_token", "transport", "http_status", "api_status", "no_access_token"}

\* The step ends a refresh of slot p in a failure.
RefreshFails(p) ==
    /\ req'[p] # req[p]
    /\ Len(req'[p].refreshes) > 0
    /\ req'[p].refreshes[Len(req'[p].refreshes)].mode \in FailedModes

\* C30: a refresh that fails - no stored refresh token, no answer or a
\* non-success status from the token endpoint, a provider-level error status,
\* a response without an access token - issues no redis.set and leaves the
\* access-token key and the refresh-token key of the provider as they were.
FailedRefreshLeavesTokens ==
    [][\A p \in Procs :
         RefreshFails(p) =>
            /\ req'[p].refreshes[Len(req'[p].refreshes)].writes = <<>>
            /\ cache'[AccessKey(req'[p].prov)] = cache[AccessKey(req'[p].prov)]
            /\ cache'[RefreshKey(req'[p].prov)] = cache[RefreshKey(req'[p].prov)]]_vars

\* C30 witness: a refresh ended on a response without an access token and
\* the cache still holds the refresh token that refresh had sent.
RefreshFailedTokenKept ==
    \E p \in Procs :
       LET r == req[p]
           n == Len(r.refreshes)
       IN  /\ r.pc = "done"
           /\ n > 0
           /\ r.refreshes[n].mode = "no_access_token"
           /\ r.refreshes[n].refresh_token # None
           /\ RedisGet(cache, RefreshKey(r.prov)) = r.refreshes[n].refresh_token
           /\ provider = r.prov

====
